---- MODULE Spec2Model ----
(***************************************************************************)
(* The backend-process supervisor of vibeproxy (internal/process/manager.go) *)
(* as a state machine: Manager.Start, Manager.Stop, the waiter goroutine,  *)
(* the two output readers, the supervised processes and the operating      *)
(* system around them.  A critical section of Manager.mu is one step, the  *)
(* Lock, the body and the Unlock; in the specifications that include       *)
(* Acquire the Lock may also be a step of its own.                         *)
(***************************************************************************)
EXTENDS Integers, Sequences, FiniteSets, Bags, TLC

\* ------------------------------------------------------------------ bounds
NumCallers == 2     \* goroutines that call Start()/Stop() (HTTP handlers, main)
MaxProcs == 2       \* backend processes spawned in one behaviour
MaxCalls == 3       \* Start()/Stop() calls in one behaviour
MaxLines == 1       \* output lines the backends write in one behaviour
NumCheckers == 1    \* goroutines that call HealthCheck()
MaxJobs == 2        \* RunAuthCommand calls and connect requests in one behaviour
MaxAuthOut == 1     \* lines an auth child writes to each of its streams
NumProxyCallers == 2 \* goroutines that call the proxy's Start()/Stop()
MaxListeners == 2   \* listening sockets the proxy opens in one behaviour
MaxProxyCalls == 4  \* calls of the proxy's Start()/Stop() in one behaviour
MaxServedCalls == 2 \* such calls in the behaviours in which connections are handled
NumRingUsers == 2   \* goroutines that call a RingBuffer's Append()/Elements()
MaxCapacity == 3    \* the largest capacity a RingBuffer is made with
MaxAppends == 5     \* Append() calls on it in one behaviour
MaxElements == 2    \* Elements() calls on it in one behaviour
MaxPolls == 2       \* health polls of main (30 in the program, line 83)
MaxConns == 2       \* connections the proxy accepts
MaxChunks == 2      \* reads of a backend response that return bytes
MaxHealth == 1      \* HealthCheck() calls in one behaviour

Callers == 1..NumCallers
Procs == 1..MaxProcs
Checkers == 1..NumCheckers
ProxyCallers == 1..NumProxyCallers
Listeners == 1..MaxListeners
Conns == 1..MaxConns
Nil == 0
Streams == {"stdout", "stderr"}

\* Who holds Manager.mu.
NoHolder == <<"none", 0>>
CallerId(t) == <<"caller", t>>
WaiterId(p) == <<"waiter", p>>

VARIABLES
    mu,            \* Manager.mu: its holder
    cmd,           \* Manager.cmd: the process handle (a process, or Nil)
    isRunning,     \* Manager.isRunning
    cancelOutput,  \* Manager.cancelOutput: a channel (named by its process), or Nil
    closed,        \* per channel: how often close() was called on it
    coSeen,        \* per process: the values Manager.cancelOutput has held since
                   \* that process was registered (what an unlocked read may see)
    logBuffer,     \* Manager.logBuffer: the bag of lines appended
    binaryExists,  \* os.Stat(m.binaryPath) succeeds
    configExists,  \* os.Stat(m.configPath) succeeds
    orphan,        \* a backend of an earlier run is alive
    procState,     \* per process: "none", "alive", "exited"
    exitCode,      \* per process: its exit code (-1: ended by a signal)
    termSent,      \* per process: SIGTERM was sent to it
    killSent,      \* per process: SIGKILL was sent to it
    reaped,        \* per process: a cmd.Wait() has collected the exit status
    pending,       \* per process and stream: lines written, not yet scanned
    nlines,        \* lines written so far
    wpc,           \* per process: the waiter goroutine's position
    wcode,         \* per process: the waiter's exitCode
    rpc,           \* per process and stream: the reader goroutine's position
    pc,            \* per caller: its position in Start()/Stop()
    loc,           \* per caller: Start's cmd / Stop's cmd (a process, or Nil)
    sdone,         \* per caller: Stop's done channel and its Wait goroutine
    res,           \* per caller: what the last call returned
    calls,         \* calls made so far
    overlap,       \* callers in a Stop() that has overlapped a Start()
    sleepCrash,    \* callers in Start's final sleep whose process exited in it
    gone,          \* callers in a Start() during all of which a path was missing
    hpc,           \* per health checker: its position in HealthCheck()
    hres,          \* per health checker: what its last HealthCheck() returned
    hat,           \* per health checker: the mutex and the positions when it
                   \* called; after the call, whether a holder kept the mutex
                   \* from the call to the return
    hcalls,        \* HealthCheck() calls made so far
    jpc,           \* RunAuthCommand: the position of its caller
    jkind,         \* RunAuthCommand: command
    jemail,        \* RunAuthCommand: email
    jvia,          \* who called RunAuthCommand: "handler" or "direct"
    jchild,        \* the auth child: "none", "alive", "exited"
    jstatus,       \* the auth child's exit status
    jpipeOut,      \* lines in the child's stdout pipe, not yet read
    jpipeErr,      \* lines in the child's stderr pipe, not yet read
    outputBuf,     \* RunAuthCommand's outputBuf: lines captured from stdout
    errorBuf,      \* RunAuthCommand's errorBuf: lines captured from stderr
    jdone,         \* RunAuthCommand's done channel and its Wait goroutine
    jstdin,        \* lines written to the child's stdin
    jtimer,        \* the goroutine that writes to stdin after a delay
    jres,          \* what RunAuthCommand returned last
    jspawned,      \* auth children spawned so far
    jcalls,        \* RunAuthCommand calls and connect requests so far
    hreq,          \* handleConnect: the last request
    hresp,         \* handleConnect: the last response
    tpRunning,     \* ThinkingProxy.isRunning
    tpListener,    \* ThinkingProxy.listener (a listener, or Nil)
    tpDone,        \* ThinkingProxy.done: how often close() was called on it
    lstate,        \* per listener: "none", "open", "closed"
    portBusy,      \* another program listens on the proxy's port
    tpc,           \* per proxy caller: its position in the proxy's Start()/Stop()
    tloc,          \* per proxy caller: Start's listener
    tres,          \* per proxy caller: what the last call returned
    tcalls,        \* calls of the proxy's Start()/Stop() so far
    apc,           \* per listener: the acceptConnections goroutine started for it
    alis,          \* per such goroutine: the listener its Accept() call is on
    mpc,           \* main: its position
    mpolls,        \* main: health polls made
    cpc,           \* per connection: its handler's position
    creads,        \* per connection: http.ReadRequest calls on it
    creq,          \* per connection: the request read from it
    cfwd,          \* per connection: modifiedBody
    cerr,          \* per connection: sendError's status code and message
    cout,          \* per connection: what was written to the client, in order
    cstate,        \* per connection: the client connection, "none", "open", "closed"
    bdials,        \* per connection: net.Dial calls of its handler
    bstate,        \* per connection: its backend connection, "none", "open", "closed"
    bin,           \* per connection: what was written to its backend connection
    bchunks,       \* per connection: bytes read from its backend connection
    cfail,         \* per connection: the failure its handler met, "none" if none
    berr,          \* per connection: the read error its streaming loop met, or "nil"
    xin,           \* the transform alone: the body given to it
    xout,          \* the transform alone: its results, one per application
    arch,          \* the build: what int(x) gives for a float64 beyond int64
    fraw,          \* forwarding alone: the request as the client sent it
    freq,          \* forwarding alone: what http.ReadRequest made of it
    fmsg,          \* forwarding alone: the messages built for the backend
    rb,            \* a RingBuffer: storage, head, tail, count, cap
    rreq,          \* the capacity NewRingBuffer was called with
    rbmu,          \* RingBuffer.mu: the goroutine that holds it, or 0
    rbpc,          \* per goroutine using the RingBuffer: where it is
    rline,         \* per such goroutine: the line its Append() was called with
    rhist,         \* the lines of the Append() calls that have returned, in order
    rgot           \* the slices Elements() has returned, in order

mgrVars == <<mu, cmd, isRunning, cancelOutput, closed, coSeen>>
envVars == <<binaryExists, configExists, orphan>>
procVars == <<procState, exitCode, termSent, killSent, reaped, pending, nlines>>
goVars == <<wpc, wcode, rpc>>
callVars == <<pc, loc, sdone, res, calls, overlap, sleepCrash, gone>>
healthVars == <<hpc, hres, hat, hcalls>>
jobVars == <<jpc, jkind, jemail, jvia, jchild, jstatus, jpipeOut, jpipeErr, outputBuf,
             errorBuf, jdone, jstdin, jtimer, jres, jspawned, jcalls, hreq, hresp>>
proxyVars == <<tpRunning, tpListener, tpDone, lstate, portBusy, tpc, tloc, tres, tcalls,
               apc, alis>>
mainVars == <<mpc, mpolls>>
connVars == <<cpc, creads, creq, cfwd, cerr, cout, cstate, bdials, bstate, bin, bchunks,
              cfail, berr>>
transformVars == <<xin, xout, arch>>
forwardVars == <<fraw, freq, fmsg>>
ringVars == <<rb, rreq, rbmu, rbpc, rline, rhist, rgot>>
extVars == <<healthVars, jobVars, proxyVars, mainVars, connVars, transformVars, forwardVars, ringVars>>
vars == <<mgrVars, envVars, procVars, goVars, callVars, logBuffer, extVars>>

\* ------------------------------------------------------------------ log store
\* A line of the log, without its timestamp: <<kind, number, stream>>.
Line(kind, n, s) == <<kind, n, s>>

\* Manager.addLog: append one line.
addLog(line) == logBuffer' = logBuffer (+) SetToBag({line})

\* How often a line is in a log.
LogCountIn(log, line) == IF line \in BagToSet(log) THEN CopiesIn(line, log) ELSE 0
LogCount(line) == LogCountIn(logBuffer, line)

\* ------------------------------------------------------------------ helpers
InStart(t) == pc[t] \in {"s_check", "s_pgrep", "s_pkill", "s_cleaned", "s_statbin",
                         "s_statcfg", "s_spawn", "s_register", "s_log", "s_sleep"}
InStop(t) == pc[t] \in {"p_read", "p_clear", "p_log", "p_term", "p_select", "p_kill",
                        "p_waitdone", "p_cleanup"}

\* Start() calls that have not yet spawned, and processes spawned.
Spawned == {p \in Procs : procState[p] # "none"}
StartsBeforeSpawn == {t \in Callers : InStart(t) /\ loc[t] = Nil}
Alive == {p \in Procs : procState[p] = "alive"}

\* m.mu.Lock() succeeds for h: the mutex is free, or h took it in a step of
\* its own.
CanLock(h) == mu \in {NoHolder, h}

\* close(m.cancelOutput); m.cancelOutput = nil, when it is not nil.
CloseCancel ==
    /\ closed' = IF cancelOutput # Nil
                 THEN [closed EXCEPT ![cancelOutput] = @ + 1] ELSE closed
    /\ cancelOutput' = Nil
    /\ coSeen' = [p \in Procs |-> IF coSeen[p] # {} THEN coSeen[p] \cup {Nil} ELSE {}]

\* RunAuthCommand's three results, and handleConnect's request.
Result(ok, msg, err) == [ok |-> ok, msg |-> msg, err |-> err]
NoResult == Result(FALSE, <<"none">>, "none")
Request(method, decodes, service, email) ==
    [method |-> method, decodes |-> decodes, service |-> service, email |-> email]
NoRequest == Request("none", FALSE, "", "")

\* ------------------------------------------------------------------ JSON bodies
\* The value of a field of a JSON object: absent, a number (w + h/2 with h
\* 0 or 1, as json.Unmarshal's float64), a string (a sequence of pieces of
\* text), the thinking object the proxy adds, or any other JSON value.
Absent == [t |-> "absent", v |-> <<>>]
Num(w, h) == [t |-> "num", v |-> <<w, h>>]
IntNum(n) == Num(n, 0)
Str(pieces) == [t |-> "str", v |-> pieces]
OtherValue(tag) == [t |-> "other", v |-> <<tag>>]
ThinkingObject(budget) == [t |-> "thinking", v |-> <<"enabled", budget>>]

\* Beyond stands for a number no int64 holds (1e30, say): it is larger than
\* every number the transform compares with.  int(x) of such a float64 is
\* implementation-dependent: the least int64 on amd64, the greatest on arm64.
Beyond == 1073741824
Builds == {"amd64", "arm64"}
IntOfBeyond == CASE arch = "amd64" -> -Beyond [] arch = "arm64" -> Beyond

\* int(x) of a float64: truncation toward zero.
IntOf(x) ==
    IF x.v[1] >= Beyond THEN IntOfBeyond
    ELSE IF x.v[1] < 0 /\ x.v[2] = 1 THEN x.v[1] + 1 ELSE x.v[1]

\* A body: bytes that are no JSON object ("" is the empty body), or a JSON
\* object with the fields the proxy looks at and the rest of its fields;
\* marshalled says the bytes are json.Marshal's and not the client's.
RawBody(text) ==
    [text |-> text, model |-> Absent, max_tokens |-> Absent, max_output_tokens |-> Absent,
     thinking |-> Absent, rest |-> "", marshalled |-> FALSE]
JsonBody(model, maxTokens, maxOutputTokens, thinking, rest) ==
    [text |-> "object", model |-> model, max_tokens |-> maxTokens,
     max_output_tokens |-> maxOutputTokens, thinking |-> thinking, rest |-> rest,
     marshalled |-> FALSE]

\* json.Unmarshal into map[string]interface{} holds every number as a
\* float64 and json.Marshal prints that float64: an integer beyond 2^53 that
\* float64 cannot hold comes back rounded.
Float64Rest == ("seed 9007199254740993" :> "seed 9007199254740992")
Marshal(jsonBody) ==
    [jsonBody EXCEPT !.rest = IF @ \in DOMAIN Float64Rest THEN Float64Rest[@] ELSE @,
                     !.marshalled = TRUE]

\* The constants of processThinkingParameter.
modelPrefix == "claude-"
thinkingPrefix == "-thinking-"
hardCap == 32000
minHeadroom == 1024

\* strings.HasPrefix and strings.LastIndex (0 for -1) on a string given as
\* pieces, each piece the prefix, the delimiter, or text holding neither.
HasPrefixAny(str, piece) == Len(str) > 0

HasPrefix(str, piece) == Len(str) > 0 /\ str[1] = piece

LastIndexFirst(str, piece) ==
    IF \E i \in 1..Len(str) : str[i] = piece
    THEN CHOOSE i \in 1..Len(str) :
            str[i] = piece /\ \A j \in 1..(i - 1) : str[j] # piece
    ELSE 0

LastIndex(str, piece) ==
    IF \E i \in 1..Len(str) : str[i] = piece
    THEN CHOOSE i \in 1..Len(str) :
            str[i] = piece /\ \A j \in (i + 1)..Len(str) : str[j] # piece
    ELSE 0

\* strconv.Atoi on the text after the delimiter: one numeral piece parses
\* (an optional sign, then digits) if an int holds its value, anything
\* else does not.  OutOfRange are numerals of integers beyond int64.
Numerals ==
    ("1" :> 1) @@ ("100" :> 100) @@ ("5000" :> 5000) @@ ("20000" :> 20000)
    @@ ("31999" :> 31999) @@ ("32000" :> 32000) @@ ("40000" :> 40000) @@ ("0" :> 0)
    @@ ("-5" :> -5) @@ ("+7" :> 7)
OutOfRange == {"99999999999999999999"}
AtoiOk(str) == Len(str) = 1 /\ str[1] \in DOMAIN Numerals
Atoi(str) == Numerals[str[1]]

\* A budget that the hard cap is not applied to.
effectiveBudgetUncapped(budget) == budget

\* The budget processThinkingParameter puts in the thinking object and the
\* ceiling it computes for the max-token fields, from a budget > 0.
effectiveBudget(budget) == IF budget >= hardCap THEN hardCap - 1 ELSE budget

tokenHeadroom(effective) ==
    IF effective \div 10 > minHeadroom THEN effective \div 10 ELSE minHeadroom

desiredMaxTokens(effective) == effective + tokenHeadroom(effective)

requiredMaxTokens(effective) ==
    LET capped == IF desiredMaxTokens(effective) > hardCap THEN hardCap
                  ELSE desiredMaxTokens(effective)
    IN  IF capped <= effective
        THEN IF effective + 1 > hardCap THEN hardCap ELSE effective + 1
        ELSE capped

\* A transform whose last step always sets max_tokens.
processThinkingParameterFirstField(b) ==
    IF b.text # "object" THEN <<b, FALSE>>
    ELSE IF b.model.t # "str" \/ ~HasPrefix(b.model.v, modelPrefix) THEN <<b, FALSE>>
    ELSE LET model == b.model.v
             idx == LastIndex(model, thinkingPrefix)
         IN  IF idx = 0 THEN <<b, FALSE>>
             ELSE
             LET budgetStr == SubSeq(model, idx + 1, Len(model))
                 cleanModel == SubSeq(model, 1, idx - 1)
                 stripped == Marshal([b EXCEPT !.model = Str(cleanModel)])
             IN  IF ~AtoiOk(budgetStr) \/ Atoi(budgetStr) <= 0 THEN <<stripped, TRUE>>
                 ELSE
                 LET budget == Atoi(budgetStr)
                     effective == effectiveBudget(budget)
                     required == requiredMaxTokens(effective)
                     hasMaxOutputTokens == b.max_output_tokens.t # "absent"
                     adjusted == b.max_tokens.t = "num" \/ b.max_output_tokens.t = "num"
                     Raise(f) == IF f.t = "num" /\ IntOf(f) <= effective
                                 THEN IntNum(required) ELSE f
                     maxTokens == IF ~adjusted
                                  THEN IntNum(required) ELSE Raise(b.max_tokens)
                     maxOutputTokens == Raise(b.max_output_tokens)
                 IN  <<[stripped EXCEPT !.thinking = ThinkingObject(effective),
                                        !.max_tokens = maxTokens,
                                        !.max_output_tokens = maxOutputTokens], TRUE>>

\* processThinkingParameter (lines 159-258): <<modifiedJSON, applied>>.
processThinkingParameter(b) ==
    IF b.text # "object" THEN <<b, FALSE>>
    ELSE IF b.model.t # "str" \/ ~HasPrefix(b.model.v, modelPrefix) THEN <<b, FALSE>>
    ELSE LET model == b.model.v
             idx == LastIndex(model, thinkingPrefix)
         IN  IF idx = 0 THEN <<b, FALSE>>
             ELSE
             LET budgetStr == SubSeq(model, idx + 1, Len(model))
                 cleanModel == SubSeq(model, 1, idx - 1)
                 stripped == Marshal([b EXCEPT !.model = Str(cleanModel)])
             IN  IF ~AtoiOk(budgetStr) \/ Atoi(budgetStr) <= 0 THEN <<stripped, TRUE>>
                 ELSE
                 LET budget == Atoi(budgetStr)
                     effective == effectiveBudget(budget)
                     required == requiredMaxTokens(effective)
                     hasMaxOutputTokens == b.max_output_tokens.t # "absent"
                     adjusted == b.max_tokens.t = "num" \/ b.max_output_tokens.t = "num"
                     Raise(f) == IF f.t = "num" /\ IntOf(f) <= effective
                                 THEN IntNum(required) ELSE f
                     maxTokens == IF ~adjusted /\ ~hasMaxOutputTokens
                                  THEN IntNum(required) ELSE Raise(b.max_tokens)
                     maxOutputTokens == IF ~adjusted /\ hasMaxOutputTokens
                                        THEN IntNum(required)
                                        ELSE Raise(b.max_output_tokens)
                 IN  <<[stripped EXCEPT !.thinking = ThinkingObject(effective),
                                        !.max_tokens = maxTokens,
                                        !.max_output_tokens = maxOutputTokens], TRUE>>

\* ------------------------------------------------------------------ HTTP messages
\* The request http.ReadRequest returns, the message forwardRequest builds
\* from it, and the response sendError writes.
\* strings.ToLower on the strings it is given.
ToLower(str) == CASE str = "Codex" -> "codex"
                  [] str = "QWEN" -> "qwen"
                  [] str = "Host" -> "host"
                  [] str = "Content-Length" -> "content-length"
                  [] str = "Transfer-Encoding" -> "transfer-encoding"
                  [] str = "X-Api-Key" -> "x-api-key"
                  [] str = "Connection" -> "connection"
                  [] str = "Accept" -> "accept"
                  [] OTHER -> str

\* A request as a client sends it: the three parts of its request line, its
\* header lines in the order sent, and its body.
RawRequest(method, target, proto, headers, body) ==
    [method |-> method, target |-> target, proto |-> proto, headers |-> headers,
     body |-> body]

\* Request targets: origin form (a path and a query) and absolute form (a
\* scheme and an authority before them).
Target(scheme, authority, path, query) ==
    [scheme |-> scheme, authority |-> authority, path |-> path, query |-> query]
OriginForm(path, query) == Target("", "", path, query)

\* textproto.CanonicalMIMEHeaderKey, which http.ReadRequest applies to every
\* header name.
CanonicalMIMEHeaderKey(name) ==
    CASE name = "host" -> "Host"
      [] name = "transfer-encoding" -> "Transfer-Encoding"
      [] name = "x-api-key" -> "X-Api-Key"
      [] name = "content-length" -> "Content-Length"
      [] name = "connection" -> "Connection"
      [] name = "accept" -> "Accept"
      [] OTHER -> name

\* http.ReadRequest (line 124): Method, URL and Proto from the request line;
\* Header is a map keyed by canonical names, from which Host (moved to
\* req.Host) and Transfer-Encoding are removed.  A map has no order.
ReadRequest(raw) ==
    LET canonical == {<<CanonicalMIMEHeaderKey(raw.headers[i][1]), raw.headers[i][2]>> :
                        i \in DOMAIN raw.headers}
    IN  [method |-> raw.method, url |-> raw.target, proto |-> raw.proto,
         header |-> {h \in canonical : h[1] \notin {"Host", "Transfer-Encoding"}},
         body |-> raw.body]

\* req.URL.RequestURI() (line 275): the path and the query, without scheme
\* and authority.
RequestURI(url) == OriginForm(url.path, url.query)

\* The request line and headers of the requests of the whole proxy.
HttpRequest(method, body) ==
    ReadRequest(RawRequest(method, OriginForm("/v1/messages", ""), "HTTP/1.1",
                           <<<<"Host", "localhost:8317">>, <<"Content-Length", "n">>>>,
                           body))
NoHttpRequest == HttpRequest("", RawBody(""))
NoRawRequest == RawRequest("", OriginForm("", ""), "", <<>>, RawBody(""))
targetHost == "127.0.0.1:8318"

\* excludedHeaders (lines 278-282)
excludedHeaders == {"content-length", "host", "transfer-encoding"}

\* The byte length of a body, as len(body) gives it (line 294).
ByteLength(body) == [of |-> body]

\* A forwarded message that copies every header of the request.
ForwardedCopiesAll(req, body) ==
    [line |-> <<req.method, RequestURI(req.url), req.proto>>,
     copied |-> req.header,
     appended |-> <<<<"Host", targetHost>>, <<"Connection", "close">>,
                    <<"Content-Length", ByteLength(body)>>>>,
     body |-> body]

\* The message forwardRequest builds (lines 271-299): the request line, the
\* headers of req.Header whose lowered name is not excluded (in the order
\* the map's iteration gives, which is no fixed order), then Host,
\* Connection and Content-Length, and the body.
Forwarded(req, body) ==
    [line |-> <<req.method, RequestURI(req.url), req.proto>>,
     copied |-> {h \in req.header : ToLower(h[1]) \notin excludedHeaders},
     appended |-> <<<<"Host", targetHost>>, <<"Connection", "close">>,
                    <<"Content-Length", ByteLength(body)>>>>,
     body |-> body]

ErrorResponse(statusCode, message) ==
    [kind |-> "error", statusCode |-> statusCode, reason |-> message,
     contentType |-> "text/plain", connection |-> "close", body |-> message, n |-> 0]

\* The n-th byte a backend sends, copied to the client.
Chunk(n) ==
    [kind |-> "data", statusCode |-> 0, reason |-> "", contentType |-> "",
     connection |-> "", body |-> "", n |-> n]
NoError == [statusCode |-> 0, message |-> ""]
StatusBadRequest == 400
StatusBadGateway == 502

\* modifiedBody (lines 143-151): the transform's output for a POST with a
\* body, else the body as read.
modifiedBody(req) ==
    IF req.method = "POST" /\ req.body.text # ""
    THEN processThinkingParameter(req.body)[1]
    ELSE req.body

\* The requests clients send.
Methods == {"GET", "POST"}
RequestBodies ==
    {RawBody(""), RawBody("text"),
     JsonBody(Str(<<modelPrefix, "x", thinkingPrefix, "5000">>), IntNum(100), Absent,
              Absent, "messages")}
Requests ==
    {HttpRequest("GET", b) : b \in {k \in RequestBodies : k.text = "object"}}
    \cup {HttpRequest("POST", b) : b \in {k \in RequestBodies : k.text # "text"}}

\* The bodies the transform alone is given.
ModelValues ==
    {Absent, IntNum(5), OtherValue("null"), Str(<<>>), Str(<<"gpt-4">>),
     Str(<<"gpt-4", thinkingPrefix, "5000">>), Str(<<modelPrefix, "x">>),
     Str(<<modelPrefix, thinkingPrefix, "5000">>),
     Str(<<modelPrefix, "x", thinkingPrefix>>),
     Str(<<modelPrefix, "x", thinkingPrefix, "abc">>),
     Str(<<modelPrefix, "x", thinkingPrefix, "5000", "k">>),
     Str(<<modelPrefix, "x", thinkingPrefix, "5000", thinkingPrefix, "100">>),
     Str(<<modelPrefix, "x", thinkingPrefix, "abc", thinkingPrefix, "100">>),
     Str(<<modelPrefix, "x", thinkingPrefix, "100", thinkingPrefix, "abc">>)}
    \cup {Str(<<modelPrefix, "x", thinkingPrefix, n>>) :
             n \in (DOMAIN Numerals) \cup OutOfRange}
TokenValues ==
    {Absent, IntNum(100), IntNum(5000), Num(5000, 1), IntNum(5001), IntNum(31999),
     IntNum(32000), IntNum(40000), Num(-2, 1), IntNum(Beyond), OtherValue("null"),
     OtherValue("string")}
ThinkingValues == {Absent, OtherValue("disabled")}
RestValues == {"", "messages"} \cup DOMAIN Float64Rest
TransformInputs ==
    {RawBody(""), RawBody("text")}
    \cup {JsonBody(m, t, o, k, r) : m \in ModelValues, t \in TokenValues,
                                    o \in TokenValues, k \in ThinkingValues,
                                    r \in RestValues}

InitProgram ==
    /\ mu = NoHolder
    /\ cmd = Nil
    /\ isRunning = FALSE
    /\ cancelOutput = Nil
    /\ closed = [p \in Procs |-> 0]
    /\ coSeen = [p \in Procs |-> {}]
    /\ logBuffer = EmptyBag
    /\ binaryExists \in BOOLEAN
    /\ configExists \in BOOLEAN
    /\ orphan \in BOOLEAN
    /\ procState = [p \in Procs |-> "none"]
    /\ exitCode = [p \in Procs |-> 0]
    /\ termSent = [p \in Procs |-> FALSE]
    /\ killSent = [p \in Procs |-> FALSE]
    /\ reaped = [p \in Procs |-> FALSE]
    /\ pending = [p \in Procs |-> [s \in Streams |-> 0]]
    /\ nlines = 0
    /\ wpc = [p \in Procs |-> "none"]
    /\ wcode = [p \in Procs |-> 0]
    /\ rpc = [p \in Procs |-> [s \in Streams |-> "none"]]
    /\ pc = [t \in Callers |-> "idle"]
    /\ loc = [t \in Callers |-> Nil]
    /\ sdone = [t \in Callers |-> "none"]
    /\ res = [t \in Callers |-> "none"]
    /\ calls = 0
    /\ overlap = {}
    /\ sleepCrash = {}
    /\ gone = {}
    /\ hpc = [h \in Checkers |-> "idle"]
    /\ hres = [h \in Checkers |-> "none"]
    /\ hat = [h \in Checkers |-> <<"none">>]
    /\ hcalls = 0
    /\ jpc = "idle"
    /\ jkind = "none"
    /\ jemail = ""
    /\ jvia = "none"
    /\ jchild = "none"
    /\ jstatus = 0
    /\ jpipeOut = <<>>
    /\ jpipeErr = <<>>
    /\ outputBuf = <<>>
    /\ errorBuf = <<>>
    /\ jdone = "none"
    /\ jstdin = <<>>
    /\ jtimer = "none"
    /\ jres = NoResult
    /\ jspawned = 0
    /\ jcalls = 0
    /\ hreq = NoRequest
    /\ hresp = "none"
    /\ tpRunning = FALSE
    /\ tpListener = Nil
    /\ tpDone = 0
    /\ lstate = [l \in Listeners |-> "none"]
    /\ portBusy = FALSE
    /\ tpc = [c \in ProxyCallers |-> "idle"]
    /\ tloc = [c \in ProxyCallers |-> Nil]
    /\ tres = [c \in ProxyCallers |-> "none"]
    /\ tcalls = 0
    /\ apc = [l \in Listeners |-> "none"]
    /\ alis = [l \in Listeners |-> Nil]
    /\ mpc = "m_proxy"
    /\ mpolls = 0
    /\ cpc = [c \in Conns |-> "none"]
    /\ creads = [c \in Conns |-> 0]
    /\ creq = [c \in Conns |-> NoHttpRequest]
    /\ cfwd = [c \in Conns |-> RawBody("")]
    /\ cerr = [c \in Conns |-> NoError]
    /\ cout = [c \in Conns |-> <<>>]
    /\ cstate = [c \in Conns |-> "none"]
    /\ bdials = [c \in Conns |-> 0]
    /\ bstate = [c \in Conns |-> "none"]
    /\ bin = [c \in Conns |-> <<>>]
    /\ bchunks = [c \in Conns |-> 0]
    /\ cfail = [c \in Conns |-> "none"]
    /\ berr = [c \in Conns |-> "nil"]

\* ------------------------------------------------------------------ RingBuffer
RingUsers == 1..NumRingUsers

\* The lines appended, the n-th Append() bringing the n-th of them.
LineNames == <<"l1", "l2", "l3", "l4", "l5", "l6", "l7", "l8">>

\* NewRingBuffer (lines 51-59): capacity raised to 1 if below, storage of
\* that many empty strings, head, tail and count zero.
NewRingBuffer(capacity) ==
    LET c == IF capacity < 1 THEN 1 ELSE capacity
    IN  [storage |-> [i \in 0..(c - 1) |-> ""], head |-> 0, tail |-> 0, count |-> 0,
         cap |-> c]

\* The loop of Elements (lines 82-90): count strings from head on, round the
\* storage.
Elements(b) == [i \in 1..b.count |-> b.storage[(b.head + i - 1) % b.cap]]

\* A slice Elements() returned: its strings are its own (make, line 86), and
\* n is the number of Append() calls that had returned by then.
OwnSlice(b, n) == [backing |-> "own", data |-> Elements(b), head |-> b.head, n |-> n]

\* The strings a returned slice holds now.
SliceNow(g) ==
    IF g.backing = "own" THEN g.data
    ELSE [i \in 1..Len(g.data) |-> rb.storage[(g.head + i - 1) % rb.cap]]

\* No RingBuffer is in use.
InitLogBuffer ==
    /\ rreq = 1
    /\ rb = NewRingBuffer(rreq)
    /\ rbmu = 0
    /\ rbpc = [u \in RingUsers |-> "idle"]
    /\ rline = [u \in RingUsers |-> ""]
    /\ rhist = <<>>
    /\ rgot = <<>>

\* What the RingBuffer's steps leave alone.
notRing == <<mgrVars, envVars, procVars, goVars, callVars, logBuffer, healthVars,
             jobVars, proxyVars, mainVars, connVars, transformVars, forwardVars>>

\* Append: rb.mu.Lock() (line 63), by the goroutine that gets the lock.
RbAppendLock(u) ==
    /\ rbpc[u] = "idle" /\ rbmu = 0
    /\ Len(rhist) < MaxAppends
    /\ rbmu' = u
    /\ rline' = [rline EXCEPT ![u] = LineNames[Len(rhist) + 1]]
    /\ rbpc' = [rbpc EXCEPT ![u] = "a_store"]
    /\ UNCHANGED <<notRing, rb, rreq, rhist, rgot>>

\* rb.storage[rb.tail] = line (line 66)
RbAppendStore(u) ==
    /\ rbpc[u] = "a_store"
    /\ rb' = [rb EXCEPT !.storage[rb.tail] = rline[u]]
    /\ rbpc' = [rbpc EXCEPT ![u] = "a_count"]
    /\ UNCHANGED <<notRing, rreq, rbmu, rline, rhist, rgot>>

\* An Append that counts the line also when the buffer is full.
RbAppendCountAlways(u) ==
    /\ rbpc[u] = "a_count"
    /\ rb' = [rb EXCEPT !.count = @ + 1]
    /\ rbpc' = [rbpc EXCEPT ![u] = "a_tail"]
    /\ UNCHANGED <<notRing, rreq, rbmu, rline, rhist, rgot>>

\* An Append that leaves head where it is when the buffer is full.
RbAppendCountKeepsHead(u) ==
    /\ rbpc[u] = "a_count"
    /\ rb' = IF rb.count = rb.cap THEN rb ELSE [rb EXCEPT !.count = @ + 1]
    /\ rbpc' = [rbpc EXCEPT ![u] = "a_tail"]
    /\ UNCHANGED <<notRing, rreq, rbmu, rline, rhist, rgot>>

\* if rb.count == rb.cap { head = (head + 1) % cap } else { count++ }
\* (lines 68-72)
RbAppendCount(u) ==
    /\ rbpc[u] = "a_count"
    /\ rb' = IF rb.count = rb.cap THEN [rb EXCEPT !.head = (@ + 1) % rb.cap]
             ELSE [rb EXCEPT !.count = @ + 1]
    /\ rbpc' = [rbpc EXCEPT ![u] = "a_tail"]
    /\ UNCHANGED <<notRing, rreq, rbmu, rline, rhist, rgot>>

\* rb.tail = (rb.tail + 1) % rb.cap and the deferred Unlock (lines 64, 74)
RbAppendTail(u) ==
    /\ rbpc[u] = "a_tail"
    /\ rb' = [rb EXCEPT !.tail = (@ + 1) % rb.cap]
    /\ rbmu' = 0
    /\ rhist' = Append(rhist, rline[u])
    /\ rbpc' = [rbpc EXCEPT ![u] = "idle"]
    /\ UNCHANGED <<notRing, rreq, rline, rgot>>

\* An Elements that takes no lock.
RbElementsNoLock(u) ==
    /\ rbpc[u] = "idle"
    /\ Len(rgot) < MaxElements
    /\ rbpc' = [rbpc EXCEPT ![u] = "e_copy"]
    /\ UNCHANGED <<notRing, rb, rreq, rbmu, rline, rhist, rgot>>

\* Elements: rb.mu.Lock() (line 79)
RbElementsLock(u) ==
    /\ rbpc[u] = "idle" /\ rbmu = 0
    /\ Len(rgot) < MaxElements
    /\ rbmu' = u
    /\ rbpc' = [rbpc EXCEPT ![u] = "e_copy"]
    /\ UNCHANGED <<notRing, rb, rreq, rline, rhist, rgot>>

\* An Elements that returns a slice of the storage itself.
RbElementsCopyAlias(u) ==
    /\ rbpc[u] = "e_copy"
    /\ rgot' = Append(rgot, [OwnSlice(rb, Len(rhist)) EXCEPT !.backing = "storage"])
    /\ rbmu' = IF rbmu = u THEN 0 ELSE rbmu
    /\ rbpc' = [rbpc EXCEPT ![u] = "idle"]
    /\ UNCHANGED <<notRing, rb, rreq, rline, rhist>>

\* Elements (lines 82-92): the copy, the return and the deferred Unlock.
RbElementsCopy(u) ==
    /\ rbpc[u] = "e_copy"
    /\ rgot' = Append(rgot, OwnSlice(rb, Len(rhist)))
    /\ rbmu' = IF rbmu = u THEN 0 ELSE rbmu
    /\ rbpc' = [rbpc EXCEPT ![u] = "idle"]
    /\ UNCHANGED <<notRing, rb, rreq, rline, rhist>>

RingStep(u) ==
    \/ RbAppendLock(u) \/ RbAppendStore(u) \/ RbAppendCount(u) \/ RbAppendTail(u)
    \/ RbElementsLock(u) \/ RbElementsCopy(u)

NextRing == \E u \in RingUsers : RingStep(u)

\* Nothing is given to the transform alone.
Init ==
    /\ InitProgram
    /\ xin = RawBody("")
    /\ xout = <<>>
    /\ arch = "none"
    /\ fraw = NoRawRequest
    /\ freq = NoHttpRequest
    /\ fmsg = <<>>
    /\ InitLogBuffer

\* ------------------------------------------------------------------ Start()
\* A caller between calls may make the next one.
MayCall(t) == pc[t] = "idle" /\ calls < MaxCalls

\* A caller enters Start().  The bound keeps a process id free for it.
CallStart(t) ==
    /\ MayCall(t)
    /\ Cardinality(Spawned) + Cardinality(StartsBeforeSpawn) < MaxProcs
    /\ pc' = [pc EXCEPT ![t] = "s_check"]
    /\ loc' = [loc EXCEPT ![t] = Nil]
    /\ res' = [res EXCEPT ![t] = "none"]
    /\ calls' = calls + 1
    /\ overlap' = overlap \cup {u \in Callers : InStop(u)}
    /\ gone' = IF binaryExists /\ configExists THEN gone \ {t} ELSE gone \cup {t}
    /\ UNCHANGED <<mgrVars, envVars, procVars, goVars, sdone, sleepCrash, logBuffer,
                   extVars>>

\* Start without the check of m.isRunning: it always goes on to the cleanup.
StartCheckAlways(t) ==
    /\ pc[t] = "s_check"
    /\ CanLock(CallerId(t))
    /\ mu' = NoHolder
    /\ pc' = [pc EXCEPT ![t] = "s_pgrep"]
    /\ UNCHANGED <<cmd, isRunning, cancelOutput, closed, coSeen, envVars, procVars,
                   goVars, loc, sdone, res, calls, overlap, sleepCrash, gone, logBuffer,
                   extVars>>

\* m.mu.Lock(); if m.isRunning { Unlock; return nil }; Unlock (lines 123-128)
StartCheck(t) ==
    /\ pc[t] = "s_check"
    /\ CanLock(CallerId(t))
    /\ mu' = NoHolder
    /\ IF isRunning
       THEN /\ pc' = [pc EXCEPT ![t] = "idle"]
            /\ res' = [res EXCEPT ![t] = "start:nil"]
       ELSE /\ pc' = [pc EXCEPT ![t] = "s_pgrep"]
            /\ res' = res
    /\ gone' = IF pc'[t] = "idle" THEN gone \ {t} ELSE gone
    /\ UNCHANGED <<cmd, isRunning, cancelOutput, closed, coSeen, envVars, procVars,
                   goVars, loc, sdone, calls, overlap, sleepCrash, logBuffer,
                   extVars>>

\* killOrphanedProcesses: pgrep -f cli-proxy-api (lines 416-426).  It lists the
\* orphan of an earlier run and every live backend of this supervisor (their
\* command line is the binary path, .../cli-proxy-api); it returns at once when
\* it lists nothing.
StartPgrep(t) ==
    /\ pc[t] = "s_pgrep"
    /\ pc' = [pc EXCEPT ![t] = IF orphan \/ Alive # {} THEN "s_pkill" ELSE "s_statbin"]
    /\ UNCHANGED <<mgrVars, envVars, procVars, goVars, loc, sdone, res, calls,
                   overlap, sleepCrash, gone, logBuffer, extVars>>

\* addLog("Found orphaned ..."); pkill -9 -f cli-proxy-api (lines 428-434):
\* SIGKILL to every process the pattern matches, or nothing when pkill fails.
StartPkill(t) ==
    /\ pc[t] = "s_pkill"
    /\ addLog(Line("orphans found", 0, ""))
    /\ \/ /\ orphan' = FALSE
          /\ killSent' = [p \in Procs |-> killSent[p] \/ procState[p] = "alive"]
       \/ UNCHANGED <<orphan, killSent, extVars>>
    /\ pc' = [pc EXCEPT ![t] = "s_cleaned"]
    /\ UNCHANGED <<mgrVars, binaryExists, configExists, procState, exitCode, termSent,
                   reaped, pending, nlines, goVars, loc, sdone, res, calls, overlap,
                   sleepCrash, gone, extVars>>

\* time.Sleep(500ms); addLog("Cleaned up orphaned processes") (lines 436-437)
StartCleaned(t) ==
    /\ pc[t] = "s_cleaned"
    /\ addLog(Line("orphans cleaned", 0, ""))
    /\ pc' = [pc EXCEPT ![t] = "s_statbin"]
    /\ UNCHANGED <<mgrVars, envVars, procVars, goVars, loc, sdone, res, calls,
                   overlap, sleepCrash, gone, extVars>>

\* os.Stat(m.binaryPath) (lines 134-136)
StartStatBinary(t) ==
    /\ pc[t] = "s_statbin"
    /\ IF binaryExists
       THEN /\ pc' = [pc EXCEPT ![t] = "s_statcfg"]
            /\ res' = res
       ELSE /\ pc' = [pc EXCEPT ![t] = "idle"]
            /\ res' = [res EXCEPT ![t] = "start:binary not found"]
    /\ gone' = IF pc'[t] = "idle" THEN gone \ {t} ELSE gone
    /\ UNCHANGED <<mgrVars, envVars, procVars, goVars, loc, sdone, calls, overlap,
                   sleepCrash, logBuffer, extVars>>

\* Start without the check of the config path: it goes on to the spawn.
StartStatConfigSkipped(t) ==
    /\ pc[t] = "s_statcfg"
    /\ pc' = [pc EXCEPT ![t] = "s_spawn"]
    /\ UNCHANGED <<mgrVars, envVars, procVars, goVars, loc, sdone, res, calls, overlap,
                   sleepCrash, gone, logBuffer, extVars>>

\* os.Stat(m.configPath) (lines 139-141)
StartStatConfig(t) ==
    /\ pc[t] = "s_statcfg"
    /\ IF configExists
       THEN /\ pc' = [pc EXCEPT ![t] = "s_spawn"]
            /\ res' = res
       ELSE /\ pc' = [pc EXCEPT ![t] = "idle"]
            /\ res' = [res EXCEPT ![t] = "start:config not found"]
    /\ gone' = IF pc'[t] = "idle" THEN gone \ {t} ELSE gone
    /\ UNCHANGED <<mgrVars, envVars, procVars, goVars, loc, sdone, calls, overlap,
                   sleepCrash, logBuffer, extVars>>

\* exec.Command, StdoutPipe, StderrPipe, cmd.Start() (lines 144-160): a new
\* process running the binary, or an error from the pipes or the spawn.
StartSpawn(t) ==
    /\ pc[t] = "s_spawn"
    /\ \/ \E p \in Procs :
            /\ binaryExists
            /\ procState[p] = "none"
            /\ \A q \in Procs : q < p => procState[q] # "none"
            /\ procState' = [procState EXCEPT ![p] = "alive"]
            /\ loc' = [loc EXCEPT ![t] = p]
            /\ pc' = [pc EXCEPT ![t] = "s_register"]
            /\ res' = res
       \/ /\ pc' = [pc EXCEPT ![t] = "idle"]
          /\ res' = [res EXCEPT ![t] = "start:failed to start server"]
          /\ UNCHANGED <<procState, loc, extVars>>
    /\ gone' = IF pc'[t] = "idle" THEN gone \ {t} ELSE gone
    /\ UNCHANGED <<mgrVars, envVars, exitCode, termSent, killSent, reaped, pending,
                   nlines, goVars, sdone, calls, overlap, sleepCrash, logBuffer,
                   extVars>>

\* m.mu.Lock(); m.cmd = cmd; m.isRunning = true; m.cancelOutput = make(chan);
\* Unlock (lines 162-166)
StartRegister(t) ==
    /\ pc[t] = "s_register"
    /\ CanLock(CallerId(t))
    /\ cmd' = loc[t]
    /\ isRunning' = TRUE
    /\ cancelOutput' = loc[t]
    /\ coSeen' = [p \in Procs |-> IF p = loc[t] THEN {p}
                                  ELSE IF coSeen[p] # {} THEN coSeen[p] \cup {loc[t]}
                                  ELSE {}]
    /\ mu' = NoHolder
    /\ pc' = [pc EXCEPT ![t] = "s_log"]
    /\ UNCHANGED <<closed, envVars, procVars, goVars, loc, sdone, res, calls,
                   overlap, sleepCrash, gone, logBuffer, extVars>>

\* addLog("Server started"); go readOutput(stdout); go readOutput(stderr);
\* go func() { cmd.Wait() ... } (lines 168-175)
StartLog(t) ==
    /\ pc[t] = "s_log"
    /\ addLog(Line("started", 0, ""))
    /\ rpc' = [rpc EXCEPT ![loc[t]] = [s \in Streams |-> "scan"]]
    /\ wpc' = [wpc EXCEPT ![loc[t]] = "wait"]
    /\ pc' = [pc EXCEPT ![t] = "s_sleep"]
    /\ UNCHANGED <<mgrVars, envVars, procVars, wcode, loc, sdone, res, calls,
                   overlap, sleepCrash, gone, extVars>>

\* time.Sleep(1s); return nil (lines 197-199)
StartSleep(t) ==
    /\ pc[t] = "s_sleep"
    /\ pc' = [pc EXCEPT ![t] = "idle"]
    /\ res' = [res EXCEPT ![t] = "start:nil"]
    /\ sleepCrash' = sleepCrash \ {t}
    /\ gone' = gone \ {t}
    /\ UNCHANGED <<mgrVars, envVars, procVars, goVars, loc, sdone, calls, overlap,
                   logBuffer, extVars>>

\* ------------------------------------------------------------------ the waiter
\* err := cmd.Wait(); exitCode from an *exec.ExitError, else 0 (lines 176-182).
\* Wait returns once the process has exited; the exit status goes to the first
\* Wait to collect it, a later one gets an error that is no ExitError.
WaiterWait(p) ==
    /\ wpc[p] = "wait"
    /\ procState[p] = "exited"
    /\ wcode' = [wcode EXCEPT ![p] = IF reaped[p] THEN 0 ELSE exitCode[p]]
    /\ reaped' = [reaped EXCEPT ![p] = TRUE]
    /\ wpc' = [wpc EXCEPT ![p] = "cleanup"]
    /\ UNCHANGED <<mgrVars, envVars, procState, exitCode, termSent, killSent, pending,
                   nlines, rpc, callVars, logBuffer, extVars>>

\* A waiter that restarts the backend it has seen exit.
WaiterCleanupRestarts(p) ==
    /\ wpc[p] = "cleanup"
    /\ CanLock(WaiterId(p))
    /\ procState' = [procState EXCEPT ![p] = "alive"]
    /\ reaped' = [reaped EXCEPT ![p] = FALSE]
    /\ isRunning' = TRUE
    /\ cmd' = p
    /\ mu' = NoHolder
    /\ wpc' = [wpc EXCEPT ![p] = "wait"]
    /\ UNCHANGED <<cancelOutput, closed, coSeen, envVars, exitCode, termSent, killSent,
                   pending, nlines, wcode, rpc, callVars, logBuffer, extVars>>

\* m.mu.Lock(); m.isRunning = false; m.cmd = nil; close(m.cancelOutput) if not
\* nil; Unlock (lines 184-191)
WaiterCleanup(p) ==
    /\ wpc[p] = "cleanup"
    /\ CanLock(WaiterId(p))
    /\ isRunning' = FALSE
    /\ cmd' = Nil
    /\ CloseCancel
    /\ mu' = NoHolder
    /\ wpc' = [wpc EXCEPT ![p] = "log"]
    /\ UNCHANGED <<envVars, procVars, wcode, rpc, callVars, logBuffer, extVars>>

\* m.addLog("Server stopped with code: %d") (line 193)
WaiterLog(p) ==
    /\ wpc[p] = "log"
    /\ addLog(Line("stopped with code", wcode[p], ""))
    /\ wpc' = [wpc EXCEPT ![p] = "done"]
    /\ wcode' = [wcode EXCEPT ![p] = 0]
    /\ UNCHANGED <<mgrVars, envVars, procVars, rpc, callVars, extVars>>

\* ------------------------------------------------------------------ Stop()
\* A caller enters Stop().
CallStop(t) ==
    /\ MayCall(t)
    /\ pc' = [pc EXCEPT ![t] = "p_read"]
    /\ loc' = [loc EXCEPT ![t] = Nil]
    /\ res' = [res EXCEPT ![t] = "none"]
    /\ calls' = calls + 1
    /\ overlap' = IF \E u \in Callers : InStart(u) THEN overlap \cup {t} ELSE overlap
    /\ UNCHANGED <<mgrVars, envVars, procVars, goVars, sdone, sleepCrash, gone, logBuffer,
                   extVars>>

\* Stop without the early return: it always goes on to stop cmd.
StopReadNoReturn(t) ==
    /\ pc[t] = "p_read"
    /\ CanLock(CallerId(t))
    /\ mu' = NoHolder
    /\ loc' = [loc EXCEPT ![t] = cmd]
    /\ pc' = [pc EXCEPT ![t] = IF cmd = Nil THEN "p_cleanup" ELSE "p_log"]
    /\ UNCHANGED <<cmd, isRunning, cancelOutput, closed, coSeen, envVars, procVars,
                   goVars, sdone, res, calls, overlap, sleepCrash, gone, logBuffer,
                   extVars>>

\* m.mu.Lock(); cmd := m.cmd; isRunning := m.isRunning; Unlock;
\* if !isRunning || cmd == nil (lines 204-209)
StopRead(t) ==
    /\ pc[t] = "p_read"
    /\ CanLock(CallerId(t))
    /\ mu' = NoHolder
    /\ loc' = [loc EXCEPT ![t] = cmd]
    /\ pc' = [pc EXCEPT ![t] = IF ~isRunning \/ cmd = Nil THEN "p_clear" ELSE "p_log"]
    /\ UNCHANGED <<cmd, isRunning, cancelOutput, closed, coSeen, envVars, procVars,
                   goVars, sdone, res, calls, overlap, sleepCrash, gone, logBuffer,
                   extVars>>

\* m.mu.Lock(); m.isRunning = false; Unlock; return nil (lines 210-213)
StopClear(t) ==
    /\ pc[t] = "p_clear"
    /\ CanLock(CallerId(t))
    /\ isRunning' = FALSE
    /\ mu' = NoHolder
    /\ pc' = [pc EXCEPT ![t] = "idle"]
    /\ res' = [res EXCEPT ![t] = "stop:nil"]
    /\ overlap' = overlap \ {t}
    /\ UNCHANGED <<cmd, cancelOutput, closed, coSeen, envVars, procVars, goVars, loc,
                   sdone, calls, sleepCrash, gone, logBuffer, extVars>>

\* pid := cmd.Process.Pid; addLog("Stopping server (PID)") (lines 216-217)
StopLog(t) ==
    /\ pc[t] = "p_log"
    /\ addLog(Line("stopping", loc[t], ""))
    /\ pc' = [pc EXCEPT ![t] = "p_term"]
    /\ UNCHANGED <<mgrVars, envVars, procVars, goVars, loc, sdone, res, calls,
                   overlap, sleepCrash, gone, extVars>>

\* cmd.Process.Signal(SIGTERM), its error only logged; done := make(chan, 1);
\* go func() { done <- cmd.Wait() } (lines 220-228).  On a process that has
\* exited the signal fails or does nothing.
StopTerm(t) ==
    /\ pc[t] = "p_term"
    /\ termSent' = [termSent EXCEPT ![loc[t]] = TRUE]
    /\ sdone' = [sdone EXCEPT ![t] = "waiting"]
    /\ pc' = [pc EXCEPT ![t] = "p_select"]
    /\ UNCHANGED <<mgrVars, envVars, procState, exitCode, killSent, reaped, pending,
                   nlines, goVars, loc, res, calls, overlap, sleepCrash, gone, logBuffer,
                   extVars>>

\* Stop's goroutine: done <- cmd.Wait() (line 227): Wait returns once the
\* process has exited.
StopWaitReturn(t) ==
    /\ sdone[t] = "waiting"
    /\ procState[loc[t]] = "exited"
    /\ sdone' = [sdone EXCEPT ![t] = "ready"]
    /\ reaped' = [reaped EXCEPT ![loc[t]] = TRUE]
    /\ UNCHANGED <<mgrVars, envVars, procState, exitCode, termSent, killSent, pending,
                   nlines, goVars, pc, loc, res, calls, overlap, sleepCrash, gone, logBuffer,
                   extVars>>

\* case <-done: addLog("Server stopped gracefully") (lines 231-233)
StopDone(t) ==
    /\ pc[t] = "p_select"
    /\ sdone[t] = "ready"
    /\ addLog(Line("stopped gracefully", 0, ""))
    /\ sdone' = [sdone EXCEPT ![t] = "none"]
    /\ pc' = [pc EXCEPT ![t] = "p_cleanup"]
    /\ UNCHANGED <<mgrVars, envVars, procVars, goVars, loc, res, calls, overlap,
                   sleepCrash, gone, extVars>>

\* The timeout branch taken although done holds the exit.
StopTimeoutAnyway(t) ==
    /\ pc[t] = "p_select"
    /\ sdone[t] # "none"
    /\ addLog(Line("force killing", 0, ""))
    /\ pc' = [pc EXCEPT ![t] = "p_kill"]
    /\ UNCHANGED <<mgrVars, envVars, procVars, goVars, loc, sdone, res, calls,
                   overlap, sleepCrash, gone, extVars>>

\* case <-time.After(2s): addLog("force killing") (lines 234-236): the timer
\* fires while nothing has arrived on done.
StopTimeout(t) ==
    /\ pc[t] = "p_select"
    /\ sdone[t] = "waiting"
    /\ addLog(Line("force killing", 0, ""))
    /\ pc' = [pc EXCEPT ![t] = "p_kill"]
    /\ UNCHANGED <<mgrVars, envVars, procVars, goVars, loc, sdone, res, calls,
                   overlap, sleepCrash, gone, extVars>>

\* cmd.Process.Kill(), its error only logged (lines 237-239)
StopKill(t) ==
    /\ pc[t] = "p_kill"
    /\ killSent' = [killSent EXCEPT ![loc[t]] = TRUE]
    /\ pc' = [pc EXCEPT ![t] = "p_waitdone"]
    /\ UNCHANGED <<mgrVars, envVars, procState, exitCode, termSent, reaped, pending,
                   nlines, goVars, loc, sdone, res, calls, overlap, sleepCrash, gone,
                   logBuffer, extVars>>

\* <-done (line 240)
StopWaitDone(t) ==
    /\ pc[t] = "p_waitdone"
    /\ sdone[t] = "ready"
    /\ sdone' = [sdone EXCEPT ![t] = "none"]
    /\ pc' = [pc EXCEPT ![t] = "p_cleanup"]
    /\ UNCHANGED <<mgrVars, envVars, procVars, goVars, loc, res, calls, overlap,
                   sleepCrash, gone, logBuffer, extVars>>

\* m.mu.Lock(); m.cmd = nil; m.isRunning = false; close(m.cancelOutput) if not
\* nil; Unlock; return nil (lines 243-252)
StopCleanup(t) ==
    /\ pc[t] = "p_cleanup"
    /\ CanLock(CallerId(t))
    /\ cmd' = Nil
    /\ isRunning' = FALSE
    /\ CloseCancel
    /\ mu' = NoHolder
    /\ pc' = [pc EXCEPT ![t] = "idle"]
    /\ res' = [res EXCEPT ![t] = "stop:nil"]
    /\ overlap' = overlap \ {t}
    /\ UNCHANGED <<envVars, procVars, goVars, loc, sdone, calls, sleepCrash, gone, logBuffer,
                   extVars>>

\* ------------------------------------------------------------------ the backend
\* The codes a live process may exit with: 0 or 1 on its own, -1 (Go's
\* ExitCode of a signalled process) once a SIGTERM it honours or a SIGKILL
\* has reached it.
ExitCodes(p) == {0, 1} \cup (IF termSent[p] \/ killSent[p] THEN {-1} ELSE {})

\* A live backend exits: on its own at any time, or by a signal sent to it.
ProcExit(p) ==
    /\ procState[p] = "alive"
    /\ \E c \in ExitCodes(p) : exitCode' = [exitCode EXCEPT ![p] = c]
    /\ procState' = [procState EXCEPT ![p] = "exited"]
    /\ sleepCrash' = sleepCrash \cup {t \in Callers : pc[t] = "s_sleep" /\ loc[t] = p}
    /\ UNCHANGED <<mgrVars, envVars, termSent, killSent, reaped, pending, nlines,
                   goVars, pc, loc, sdone, res, calls, overlap, gone, logBuffer,
                   extVars>>

\* A live backend writes a line to its standard output or standard error.
ProcWrite(p, s) ==
    /\ procState[p] = "alive"
    /\ nlines < MaxLines
    /\ nlines' = nlines + 1
    /\ pending' = [pending EXCEPT ![p][s] = @ + 1]
    /\ UNCHANGED <<mgrVars, envVars, procState, exitCode, termSent, killSent, reaped,
                   goVars, callVars, logBuffer, extVars>>

\* The binary or the config file is removed or put back.
FsChange ==
    /\ \/ binaryExists' = ~binaryExists /\ configExists' = configExists
       \/ configExists' = ~configExists /\ binaryExists' = binaryExists
    /\ gone' = IF binaryExists' /\ configExists' THEN {} ELSE gone
    /\ UNCHANGED <<mgrVars, orphan, procVars, goVars, pc, loc, sdone, res, calls,
                   overlap, sleepCrash, logBuffer, extVars>>

\* ------------------------------------------------------------------ readOutput
\* scanner.Scan() (line 400): the next line; false at end of input, which is
\* the process having exited with nothing left to read, or the pipe closed by
\* cmd.Wait() under the reader with lines still in it.  A line the scanner has
\* already read into its buffer is returned whether or not the pipe is closed.
ReaderScan(p, s) ==
    /\ rpc[p][s] = "scan"
    /\ \/ /\ pending[p][s] > 0
          /\ pending' = [pending EXCEPT ![p][s] = @ - 1]
          /\ rpc' = [rpc EXCEPT ![p][s] = "select"]
       \/ /\ procState[p] = "exited"
          /\ pending[p][s] = 0 \/ reaped[p]
          /\ pending' = [pending EXCEPT ![p][s] = 0]
          /\ rpc' = [rpc EXCEPT ![p][s] = "done"]
    /\ UNCHANGED <<mgrVars, envVars, procState, exitCode, termSent, killSent, reaped,
                   nlines, wpc, wcode, callVars, logBuffer, extVars>>

\* The channel an unlocked read of m.cancelOutput (line 402) may yield for a
\* reader of process p: any value the field has held since p was registered.
ReadCancelOutput(p) == coSeen[p]

\* select { case <-m.cancelOutput: return; default: line := scanner.Text();
\* if line != "" { addLog(prefix + line) } } (lines 401-409).  A receive from a
\* closed channel is ready; from an open or a nil channel it is not.
ReaderSelect(p, s) ==
    /\ rpc[p][s] = "select"
    /\ \E ch \in ReadCancelOutput(p) :
         IF ch # Nil /\ closed[ch] > 0
         THEN /\ rpc' = [rpc EXCEPT ![p][s] = "done"]
              /\ UNCHANGED logBuffer
         ELSE /\ rpc' = [rpc EXCEPT ![p][s] = "scan"]
              /\ \/ addLog(Line("output", p, s))
                 \/ UNCHANGED logBuffer
    /\ UNCHANGED <<mgrVars, envVars, procVars, wpc, wcode, callVars, extVars>>

\* ------------------------------------------------------------------ the mutex
\* The goroutines that are about to call m.mu.Lock().
AtLock(h) ==
    \/ \E t \in Callers : h = CallerId(t) /\ pc[t] \in {"s_check", "s_register", "p_read",
                                                        "p_clear", "p_cleanup"}
    \/ \E p \in Procs : h = WaiterId(p) /\ wpc[p] = "cleanup"

\* m.mu.Lock() as a step of its own: h holds the mutex until its critical
\* section has run.
Acquire(h) ==
    /\ mu = NoHolder
    /\ AtLock(h)
    /\ mu' = h
    /\ UNCHANGED <<cmd, isRunning, cancelOutput, closed, coSeen, envVars, procVars,
                   goVars, callVars, logBuffer, extVars>>

\* ------------------------------------------------------------------ HealthCheck()
\* HealthCheck as it would be with IsRunning's m.mu.RLock() (lines 105-106).
HcCallLocked(h) ==
    /\ hpc[h] = "idle"
    /\ hcalls < MaxHealth
    /\ mu = NoHolder
    /\ hpc' = [hpc EXCEPT ![h] = "dial"]
    /\ hres' = [hres EXCEPT ![h] = "none"]
    /\ hat' = [hat EXCEPT ![h] = <<mu, pc, wpc>>]
    /\ hcalls' = hcalls + 1
    /\ UNCHANGED <<mgrVars, envVars, procVars, goVars, callVars, logBuffer, jobVars, proxyVars,
                   mainVars, connVars, transformVars, forwardVars, ringVars>>

\* A goroutine enters HealthCheck() (line 112): no statement of it touches m.mu.
HcCall(h) ==
    /\ hpc[h] = "idle"
    /\ hcalls < MaxHealth
    /\ hpc' = [hpc EXCEPT ![h] = "dial"]
    /\ hres' = [hres EXCEPT ![h] = "none"]
    /\ hat' = [hat EXCEPT ![h] = <<mu, pc, wpc>>]
    /\ hcalls' = hcalls + 1
    /\ UNCHANGED <<mgrVars, envVars, procVars, goVars, callVars, logBuffer, jobVars, proxyVars,
                   mainVars, connVars, transformVars, forwardVars, ringVars>>

\* net.DialTimeout("tcp", "127.0.0.1:8318", 500ms); false on an error, else
\* conn.Close() and true (lines 113-118).  The dial succeeds only if a backend
\* is there to listen; it fails when none listens (yet) or the time runs out.
HcDial(h) ==
    /\ hpc[h] = "dial"
    /\ \E ok \in BOOLEAN :
         /\ ok => (Alive # {} \/ orphan)
         /\ hres' = [hres EXCEPT ![h] = IF ok THEN "true" ELSE "false"]
    /\ hat' = [hat EXCEPT ![h] = IF mu # NoHolder /\ @ = <<mu, pc, wpc>>
                                 THEN <<"held">> ELSE <<"none">>]
    /\ hpc' = [hpc EXCEPT ![h] = "idle"]
    /\ UNCHANGED <<mgrVars, envVars, procVars, goVars, callVars, logBuffer, hcalls,
                   jobVars, proxyVars, mainVars, connVars, transformVars, forwardVars, ringVars>>

HealthStep(h) == HcCall(h) \/ HcDial(h)

\* ------------------------------------------------------------------ RunAuthCommand()
\* AuthCommand (lines 19-26), and a value that is none of the four.
AuthCommands == {"ClaudeLogin", "CodexLogin", "GeminiLogin", "QwenLogin"}
CommandInputs == AuthCommands \cup {"Other"}
Emails == {"", "user@example.com"}

\* What an auth child may print, line by line.
BrowserMarkers == {"Opening browser", "Attempting to open URL"}
OutLines == BrowserMarkers \cup {"Please wait"}
ErrLines == {"login failed"}
SeqsUpTo(S, n) == UNION {[1..k -> S] : k \in 0..n}

\* strings.Contains(output, "Opening browser") ||
\* strings.Contains(output, "Attempting to open URL") (line 359)
HasMarker(output) == \E i \in 1..Len(output) : output[i] \in BrowserMarkers

BrowserMessage == <<"Browser opened for authentication">>
FailedMessage == <<"Authentication process failed unexpectedly">>

\* message := errorOutput; if "" then output; if "" then the fixed text
\* (lines 363-369)
FailureMessage(errorOutput, output) ==
    IF errorOutput # <<>> THEN errorOutput
    ELSE IF output # <<>> THEN output
    ELSE FailedMessage

\* RunAuthCommand is entered with its arguments.
JobEnter(kind, email, via) ==
    /\ jpc' = "j_stat"
    /\ jkind' = kind
    /\ jemail' = email
    /\ jvia' = via
    /\ jchild' = "none"
    /\ jstatus' = 0
    /\ jpipeOut' = <<>>
    /\ jpipeErr' = <<>>
    /\ outputBuf' = <<>>
    /\ errorBuf' = <<>>
    /\ jdone' = "none"
    /\ jstdin' = <<>>
    /\ jtimer' = "none"
    /\ jres' = NoResult

\* RunAuthCommand returns r; handleConnect, when it made the call, answers
\* with the JSON of the result (lines 310-321 of status.go).
JobReturn(r) ==
    /\ jres' = r
    /\ jpc' = "idle"
    /\ hresp' = IF jvia = "handler" THEN "200 result" ELSE hresp

\* Some other caller calls RunAuthCommand(command, email) (line 256).
JobCall(kind, email) ==
    /\ jpc = "idle"
    /\ jcalls < MaxJobs
    /\ jcalls' = jcalls + 1
    /\ JobEnter(kind, email, "direct")
    /\ UNCHANGED <<mgrVars, envVars, procVars, goVars, callVars, logBuffer, healthVars,
                   proxyVars, mainVars, connVars, transformVars, forwardVars, ringVars,
                   jspawned, hreq, hresp>>

\* The service names of the requests.
Services == {"claude", "Codex", "gemini", "qwen", "QWEN", "other"}

\* switch strings.ToLower(req.Service) (lines 288-306 of status.go)
ServiceCommand(service) ==
    CASE ToLower(service) = "claude" -> "ClaudeLogin"
      [] ToLower(service) = "codex" -> "CodexLogin"
      [] ToLower(service) = "gemini" -> "GeminiLogin"
      [] ToLower(service) = "qwen" -> "QwenLogin"
      [] OTHER -> "Other"

\* handleConnect without the check of the email for Qwen.
ConnectRequestNoEmailCheck(method, decodes, service, email) ==
    /\ jpc = "idle"
    /\ jcalls < MaxJobs
    /\ jcalls' = jcalls + 1
    /\ hreq' = Request(method, decodes, service, email)
    /\ IF method = "POST" /\ decodes /\ ServiceCommand(service) # "Other"
       THEN /\ JobEnter(ServiceCommand(service), email, "handler")
            /\ hresp' = "none"
       ELSE /\ hresp' = "400"
            /\ UNCHANGED <<jpc, jkind, jemail, jvia, jchild, jstatus, jpipeOut, jpipeErr,
                           outputBuf, errorBuf, jdone, jstdin, jtimer, jres>>
    /\ UNCHANGED <<mgrVars, envVars, procVars, goVars, callVars, logBuffer, healthVars,
                   proxyVars, mainVars, connVars, transformVars, forwardVars, ringVars,
                   jspawned>>

\* handleConnect (lines 273-308 of status.go): the method, the JSON body, the
\* service and, for Qwen, the email are checked; then RunAuthCommand is called.
ConnectRequest(method, decodes, service, email) ==
    /\ jpc = "idle"
    /\ jcalls < MaxJobs
    /\ jcalls' = jcalls + 1
    /\ hreq' = Request(method, decodes, service, email)
    /\ LET answer ==
            IF method # "POST" THEN "405 Method not allowed"
            ELSE IF ~decodes THEN "400 Invalid request"
            ELSE IF ServiceCommand(service) = "Other" THEN "400 Unknown service"
            ELSE IF ServiceCommand(service) = "QwenLogin" /\ email = ""
                 THEN "400 Email required for Qwen"
            ELSE "none"
       IN  IF answer = "none"
           THEN /\ JobEnter(ServiceCommand(service), email, "handler")
                /\ hresp' = "none"
           ELSE /\ hresp' = answer
                /\ UNCHANGED <<jpc, jkind, jemail, jvia, jchild, jstatus, jpipeOut,
                               jpipeErr, outputBuf, errorBuf, jdone, jstdin, jtimer, jres>>
    /\ UNCHANGED <<mgrVars, envVars, procVars, goVars, callVars, logBuffer, healthVars,
                   proxyVars, mainVars, connVars, transformVars, forwardVars, ringVars,
                   jspawned>>

\* os.Stat(m.binaryPath) (lines 258-260)
JobStat ==
    /\ jpc = "j_stat"
    /\ IF binaryExists
       THEN /\ jpc' = "j_kind"
            /\ UNCHANGED <<jres, hresp>>
       ELSE JobReturn(Result(FALSE, <<>>, "binary not found"))
    /\ UNCHANGED <<mgrVars, envVars, procVars, goVars, callVars, logBuffer, healthVars,
                   proxyVars, mainVars, connVars, transformVars, forwardVars, ringVars,
                   jkind, jemail, jvia, jchild, jstatus, jpipeOut, jpipeErr, outputBuf,
                   errorBuf, jdone, jstdin, jtimer, jspawned, jcalls, hreq>>

\* switch command (lines 265-281)
JobKind ==
    /\ jpc = "j_kind"
    /\ IF jkind \in AuthCommands
       THEN /\ jpc' = "j_spawn"
            /\ UNCHANGED <<jres, hresp>>
       ELSE JobReturn(Result(FALSE, <<>>, "unknown auth command"))
    /\ UNCHANGED <<mgrVars, envVars, procVars, goVars, callVars, logBuffer, healthVars,
                   proxyVars, mainVars, connVars, transformVars, forwardVars, ringVars,
                   jkind, jemail, jvia, jchild, jstatus, jpipeOut, jpipeErr, outputBuf,
                   errorBuf, jdone, jstdin, jtimer, jspawned, jcalls, hreq>>

\* exec.Command, the three pipes, cmd.Start() (lines 283-305), then the log
\* line and the goroutines (lines 307-343): the one that writes to stdin after
\* a delay, for Gemini and for Qwen with an email, and the two readers.  The
\* child's output is put in its pipes here.
JobSpawn ==
    /\ jpc = "j_spawn"
    /\ \/ /\ binaryExists
          /\ jchild' = "alive"
          /\ jspawned' = jspawned + 1
          /\ jpipeOut' \in SeqsUpTo(OutLines, MaxAuthOut)
          /\ jpipeErr' \in SeqsUpTo(ErrLines, MaxAuthOut)
          /\ addLog(Line("auth started", 0, ""))
          /\ jtimer' = IF jkind = "GeminiLogin" \/ (jkind = "QwenLogin" /\ jemail # "")
                       THEN "armed" ELSE "none"
          /\ jpc' = "j_sleep"
          /\ UNCHANGED <<jres, hresp>>
       \/ /\ JobReturn(Result(FALSE, <<>>, "failed to start auth process"))
          /\ UNCHANGED <<jchild, jspawned, jpipeOut, jpipeErr, jtimer, logBuffer>>
    /\ UNCHANGED <<mgrVars, envVars, procVars, goVars, callVars, healthVars, proxyVars,
                   mainVars, connVars, transformVars, forwardVars, ringVars, jkind,
                   jemail, jvia, jstatus, outputBuf, errorBuf, jdone, jstdin, jcalls,
                   hreq>>

\* time.Sleep(3s or 10s); stdin.Write("\n") or stdin.Write(email + "\n")
\* (lines 313-325); the write fails once the child has exited.
JobStdinWrite ==
    /\ jtimer = "armed"
    /\ jtimer' = "fired"
    /\ jstdin' = IF jchild # "alive" THEN jstdin
                 ELSE IF jkind = "GeminiLogin" THEN Append(jstdin, <<"\n">>)
                 ELSE Append(jstdin, <<jemail, "\n">>)
    /\ UNCHANGED <<mgrVars, envVars, procVars, goVars, callVars, logBuffer, healthVars,
                   proxyVars, mainVars, connVars, transformVars, forwardVars, ringVars,
                   jpc, jkind, jemail, jvia, jchild, jstatus, jpipeOut, jpipeErr,
                   outputBuf, errorBuf, jdone, jres, jspawned, jcalls, hreq, hresp>>

\* The stdout reader: scanner.Scan(); outputBuf.WriteString(line + "\n")
\* (lines 331-337)
JobReadOut ==
    /\ jpipeOut # <<>>
    /\ outputBuf' = Append(outputBuf, Head(jpipeOut))
    /\ jpipeOut' = Tail(jpipeOut)
    /\ UNCHANGED <<mgrVars, envVars, procVars, goVars, callVars, logBuffer, healthVars,
                   proxyVars, mainVars, connVars, transformVars, forwardVars, ringVars,
                   jpc, jkind, jemail, jvia, jchild, jstatus, jpipeErr, errorBuf, jdone,
                   jstdin, jtimer, jres, jspawned, jcalls, hreq, hresp>>

\* The stderr reader (lines 339-345)
JobReadErr ==
    /\ jpipeErr # <<>>
    /\ errorBuf' = Append(errorBuf, Head(jpipeErr))
    /\ jpipeErr' = Tail(jpipeErr)
    /\ UNCHANGED <<mgrVars, envVars, procVars, goVars, callVars, logBuffer, healthVars,
                   proxyVars, mainVars, connVars, transformVars, forwardVars, ringVars,
                   jpc, jkind, jemail, jvia, jchild, jstatus, jpipeOut, outputBuf, jdone,
                   jstdin, jtimer, jres, jspawned, jcalls, hreq, hresp>>

\* The auth child exits, with status 0 or not.
JobChildExit ==
    /\ jchild = "alive"
    /\ jchild' = "exited"
    /\ jstatus' \in {0, 1}
    /\ UNCHANGED <<mgrVars, envVars, procVars, goVars, callVars, logBuffer, healthVars,
                   proxyVars, mainVars, connVars, transformVars, forwardVars, ringVars,
                   jpc, jkind, jemail, jvia, jpipeOut, jpipeErr, outputBuf, errorBuf,
                   jdone, jstdin, jtimer, jres, jspawned, jcalls, hreq, hresp>>

\* time.Sleep(1s); done := make(chan error, 1); go func() { done <- cmd.Wait() }
\* (lines 348-354)
JobSleep ==
    /\ jpc = "j_sleep"
    /\ jdone' = "waiting"
    /\ jpc' = "j_select"
    /\ UNCHANGED <<mgrVars, envVars, procVars, goVars, callVars, logBuffer, healthVars,
                   proxyVars, mainVars, connVars, transformVars, forwardVars, ringVars,
                   jkind, jemail, jvia, jchild, jstatus, jpipeOut, jpipeErr, outputBuf,
                   errorBuf, jstdin, jtimer, jres, jspawned, jcalls, hreq, hresp>>

\* done <- cmd.Wait() (line 353): Wait returns once the child has exited, and
\* closes the pipes, whatever is still in them.
JobWaitReturn ==
    /\ jdone = "waiting"
    /\ jchild = "exited"
    /\ jdone' = "ready"
    /\ jpipeOut' = <<>>
    /\ jpipeErr' = <<>>
    /\ UNCHANGED <<mgrVars, envVars, procVars, goVars, callVars, logBuffer, healthVars,
                   proxyVars, mainVars, connVars, transformVars, forwardVars, ringVars,
                   jpc, jkind, jemail, jvia, jchild, jstatus, outputBuf, errorBuf,
                   jstdin, jtimer, jres, jspawned, jcalls, hreq, hresp>>

\* The finished branch without the look at the output: success only on
\* status 0.
JobSelectDoneNoMarker ==
    /\ jpc = "j_select"
    /\ jdone = "ready"
    /\ jdone' = "taken"
    /\ IF jstatus = 0
       THEN JobReturn(Result(TRUE, BrowserMessage, "nil"))
       ELSE JobReturn(Result(FALSE, FailureMessage(errorBuf, outputBuf), "exit status"))
    /\ UNCHANGED <<mgrVars, envVars, procVars, goVars, callVars, logBuffer, healthVars,
                   proxyVars, mainVars, connVars, transformVars, forwardVars, ringVars,
                   jkind, jemail, jvia, jchild, jstatus, jpipeOut, jpipeErr, outputBuf,
                   errorBuf, jstdin, jtimer, jspawned, jcalls, hreq>>

\* case err := <-done (lines 356-371): err is nil exactly on status 0.
JobSelectDone ==
    /\ jpc = "j_select"
    /\ jdone = "ready"
    /\ jdone' = "taken"
    /\ IF jstatus = 0 \/ HasMarker(outputBuf)
       THEN JobReturn(Result(TRUE, BrowserMessage, "nil"))
       ELSE JobReturn(Result(FALSE, FailureMessage(errorBuf, outputBuf), "exit status"))
    /\ UNCHANGED <<mgrVars, envVars, procVars, goVars, callVars, logBuffer, healthVars,
                   proxyVars, mainVars, connVars, transformVars, forwardVars, ringVars,
                   jkind, jemail, jvia, jchild, jstatus, jpipeOut, jpipeErr, outputBuf,
                   errorBuf, jstdin, jtimer, jspawned, jcalls, hreq>>

\* case <-time.After(500ms) (lines 373-376): the timer fires while nothing has
\* arrived on done.
JobSelectTimeout ==
    /\ jpc = "j_select"
    /\ jdone = "waiting"
    /\ JobReturn(Result(TRUE, BrowserMessage, "nil"))
    /\ UNCHANGED <<mgrVars, envVars, procVars, goVars, callVars, logBuffer, healthVars,
                   proxyVars, mainVars, connVars, transformVars, forwardVars, ringVars,
                   jkind, jemail, jvia, jchild, jstatus, jpipeOut, jpipeErr, outputBuf,
                   errorBuf, jdone, jstdin, jtimer, jspawned, jcalls, hreq>>

JobStep ==
    \/ \E kind \in CommandInputs, email \in Emails : JobCall(kind, email)
    \/ \E method \in {"POST", "GET"}, decodes \in BOOLEAN, service \in Services,
          email \in Emails : ConnectRequest(method, decodes, service, email)
    \/ JobStat \/ JobKind \/ JobSpawn \/ JobStdinWrite \/ JobReadOut \/ JobReadErr
    \/ JobChildExit \/ JobSleep \/ JobWaitReturn \/ JobSelectDone \/ JobSelectTimeout

\* ------------------------------------------------------------------ ThinkingProxy
\* What the proxy's actions leave alone.
notProxy == <<mgrVars, envVars, procVars, goVars, callVars, logBuffer, healthVars,
              jobVars, mainVars, connVars, transformVars, forwardVars, ringVars>>

\* A caller enters ThinkingProxy.Start() (line 46).  The bound keeps a
\* listener free for it.
TpCallStart(c) ==
    /\ tpc[c] = "idle"
    /\ tcalls < MaxProxyCalls
    /\ \E l \in Listeners : lstate[l] = "none"
    /\ tpc' = [tpc EXCEPT ![c] = "t_check"]
    /\ tloc' = [tloc EXCEPT ![c] = Nil]
    /\ tres' = [tres EXCEPT ![c] = "none"]
    /\ tcalls' = tcalls + 1
    /\ UNCHANGED <<notProxy, tpRunning, tpListener, tpDone, lstate, portBusy, apc, alis>>

\* tp.mu.Lock(); if tp.isRunning { Unlock; return nil }; Unlock (lines 47-53)
TpStartCheck(c) ==
    /\ tpc[c] = "t_check"
    /\ IF tpRunning
       THEN /\ tpc' = [tpc EXCEPT ![c] = "idle"]
            /\ tres' = [tres EXCEPT ![c] = "start:nil"]
       ELSE /\ tpc' = [tpc EXCEPT ![c] = "t_listen"]
            /\ tres' = tres
    /\ UNCHANGED <<notProxy, tpRunning, tpListener, tpDone, lstate, portBusy, tloc,
                   tcalls, apc, alis>>

\* net.Listen("tcp", ":port") (lines 55-58): it fails while the port is taken.
TpListen(c) ==
    /\ tpc[c] = "t_listen"
    /\ IF portBusy \/ \E l \in Listeners : lstate[l] = "open"
       THEN /\ tpc' = [tpc EXCEPT ![c] = "idle"]
            /\ tres' = [tres EXCEPT ![c] = "start:failed to start listener"]
            /\ UNCHANGED <<lstate, tloc>>
       ELSE \E l \in Listeners :
               /\ lstate[l] = "none"
               /\ \A k \in Listeners : k < l => lstate[k] # "none"
               /\ lstate' = [lstate EXCEPT ![l] = "open"]
               /\ tloc' = [tloc EXCEPT ![c] = l]
               /\ tpc' = [tpc EXCEPT ![c] = "t_register"]
               /\ tres' = tres
    /\ UNCHANGED <<notProxy, tpRunning, tpListener, tpDone, portBusy, tcalls, apc, alis>>

\* tp.mu.Lock(); tp.listener = listener; tp.isRunning = true; Unlock
\* (lines 60-63)
TpRegister(c) ==
    /\ tpc[c] = "t_register"
    /\ tpListener' = tloc[c]
    /\ tpRunning' = TRUE
    /\ tpc' = [tpc EXCEPT ![c] = "t_go"]
    /\ UNCHANGED <<notProxy, tpDone, lstate, portBusy, tloc, tres, tcalls, apc, alis>>

\* go tp.acceptConnections(); return nil (lines 65-69)
TpGo(c) ==
    /\ tpc[c] = "t_go"
    /\ apc' = [apc EXCEPT ![tloc[c]] = "top"]
    /\ tpc' = [tpc EXCEPT ![c] = "idle"]
    /\ tres' = [tres EXCEPT ![c] = "start:nil"]
    /\ UNCHANGED <<notProxy, tpRunning, tpListener, tpDone, lstate, portBusy, tloc,
                   tcalls, alis>>

\* A caller enters ThinkingProxy.Stop() (line 73).
TpCallStop(c) ==
    /\ tpc[c] = "idle"
    /\ tcalls < MaxProxyCalls
    /\ tpc' = [tpc EXCEPT ![c] = "q_check"]
    /\ tloc' = [tloc EXCEPT ![c] = Nil]
    /\ tres' = [tres EXCEPT ![c] = "none"]
    /\ tcalls' = tcalls + 1
    /\ UNCHANGED <<notProxy, tpRunning, tpListener, tpDone, lstate, portBusy, apc, alis>>

\* tp.mu.Lock(); if !tp.isRunning { Unlock; return nil }; Unlock (lines 74-79)
TpStopCheck(c) ==
    /\ tpc[c] = "q_check"
    /\ IF ~tpRunning
       THEN /\ tpc' = [tpc EXCEPT ![c] = "idle"]
            /\ tres' = [tres EXCEPT ![c] = "stop:nil"]
       ELSE /\ tpc' = [tpc EXCEPT ![c] = "q_close"]
            /\ tres' = tres
    /\ UNCHANGED <<notProxy, tpRunning, tpListener, tpDone, lstate, portBusy, tloc,
                   tcalls, apc, alis>>

\* close(tp.done) (line 81): the channel is made once, in NewThinkingProxy
\* (line 41); closing it a second time panics.
TpCloseDone(c) ==
    /\ tpc[c] = "q_close"
    /\ IF tpDone = 0
       THEN /\ tpDone' = 1
            /\ tpc' = [tpc EXCEPT ![c] = "q_cleanup"]
            /\ tres' = tres
       ELSE /\ tpDone' = tpDone
            /\ tpc' = [tpc EXCEPT ![c] = "panic"]
            /\ tres' = [tres EXCEPT ![c] = "panic: close of closed channel"]
    /\ UNCHANGED <<notProxy, tpRunning, tpListener, lstate, portBusy, tloc, tcalls, apc, alis>>

\* A Stop() that closes the connections of the handlers in flight.
TpStopCleanupCancels(c) ==
    /\ tpc[c] = "q_cleanup"
    /\ lstate' = IF tpListener # Nil THEN [lstate EXCEPT ![tpListener] = "closed"]
                 ELSE lstate
    /\ tpRunning' = FALSE
    /\ tpc' = [tpc EXCEPT ![c] = "idle"]
    /\ tres' = [tres EXCEPT ![c] = "stop:nil"]
    /\ cstate' = [k \in DOMAIN cstate |-> IF cstate[k] = "open" THEN "closed" ELSE cstate[k]]
    /\ cpc' = [k \in DOMAIN cpc |-> IF cpc[k] = "none" THEN "none" ELSE "done"]
    /\ UNCHANGED <<mgrVars, envVars, procVars, goVars, callVars, logBuffer, healthVars,
                   jobVars, mainVars, transformVars, forwardVars, ringVars, tpListener, tpDone,
                   portBusy, tloc, tcalls, apc, alis, creads, creq, cfwd, cerr, cout,
                   bdials, bstate, bin, bchunks, cfail, berr>>

\* tp.mu.Lock(); if tp.listener != nil { tp.listener.Close() };
\* tp.isRunning = false; Unlock; return nil (lines 83-90)
TpStopCleanup(c) ==
    /\ tpc[c] = "q_cleanup"
    /\ lstate' = IF tpListener # Nil THEN [lstate EXCEPT ![tpListener] = "closed"]
                 ELSE lstate
    /\ tpRunning' = FALSE
    /\ tpc' = [tpc EXCEPT ![c] = "idle"]
    /\ tres' = [tres EXCEPT ![c] = "stop:nil"]
    /\ UNCHANGED <<notProxy, tpListener, tpDone, portBusy, tloc, tcalls, apc, alis>>

\* acceptConnections (line 104): tp.listener is read, without the lock, and
\* Accept() is called on the listener read.
AcceptCall(l) ==
    /\ apc[l] = "top"
    /\ alis' = [alis EXCEPT ![l] = tpListener]
    /\ apc' = [apc EXCEPT ![l] = "accept"]
    /\ UNCHANGED <<notProxy, tpRunning, tpListener, tpDone, lstate, portBusy, tpc, tloc,
                   tres, tcalls>>

\* acceptConnections (lines 105-113): Accept returns an error, as it does on
\* a closed listener; the goroutine returns if done is closed and goes round
\* again if not.
AcceptClosed(l) ==
    /\ apc[l] = "accept"
    /\ lstate[alis[l]] = "closed"
    /\ apc' = [apc EXCEPT ![l] = IF tpDone > 0 THEN "exited" ELSE "top"]
    /\ UNCHANGED <<notProxy, tpRunning, tpListener, tpDone, lstate, portBusy, tpc, tloc,
                   tres, tcalls, alis>>

\* acceptConnections (lines 105-113): Accept returns an error on an open
\* listener (no file descriptor left, a connection aborted before it was
\* accepted); the same select follows.
AcceptFails(l) ==
    /\ apc[l] = "accept"
    /\ lstate[alis[l]] = "open"
    /\ apc' = [apc EXCEPT ![l] = IF tpDone > 0 THEN "exited" ELSE "top"]
    /\ UNCHANGED <<notProxy, tpRunning, tpListener, tpDone, lstate, portBusy, tpc, tloc,
                   tres, tcalls, alis>>

\* Another program takes the proxy's port, or gives it back.
PortChange ==
    /\ \A l \in Listeners : lstate[l] # "open"
    /\ portBusy' = ~portBusy
    /\ UNCHANGED <<notProxy, tpRunning, tpListener, tpDone, lstate, tpc, tloc, tres,
                   tcalls, apc, alis>>

\* ------------------------------------------------------------------ handleConnection
\* What a connection's handler leaves alone.
notConn == <<mgrVars, envVars, procVars, goVars, callVars, logBuffer, healthVars,
             jobVars, proxyVars, mainVars, transformVars, forwardVars, ringVars>>

\* An accept loop that runs each handler itself, before the next Accept().
AcceptInline(l, c) ==
    /\ apc[l] = "accept"
    /\ lstate[alis[l]] = "open"
    /\ cpc[c] = "none"
    /\ \A k \in Conns : k < c => cpc[k] = "done"
    /\ cpc' = [cpc EXCEPT ![c] = "read"]
    /\ cstate' = [cstate EXCEPT ![c] = "open"]
    /\ apc' = [apc EXCEPT ![l] = "top"]
    /\ UNCHANGED <<mgrVars, envVars, procVars, goVars, callVars, logBuffer, healthVars,
                   jobVars, mainVars, transformVars, forwardVars, ringVars, tpRunning, tpListener,
                   tpDone, lstate, portBusy, tpc, tloc, tres, tcalls, alis>>
    /\ UNCHANGED <<berr, creads, creq, cfwd, cerr, cout, bdials, bstate, bin, bchunks,
                   cfail>>

\* acceptConnections (lines 104-115): Accept returns a connection and its
\* handler is started with go, on a goroutine of its own.
Accept(l, c) ==
    /\ apc[l] = "accept"
    /\ lstate[alis[l]] = "open"
    /\ cpc[c] = "none"
    /\ \A k \in Conns : k < c => cpc[k] # "none"
    /\ cpc' = [cpc EXCEPT ![c] = "read"]
    /\ cstate' = [cstate EXCEPT ![c] = "open"]
    /\ apc' = [apc EXCEPT ![l] = "top"]
    /\ UNCHANGED <<mgrVars, envVars, procVars, goVars, callVars, logBuffer, healthVars,
                   jobVars, mainVars, transformVars, forwardVars, ringVars, tpRunning, tpListener,
                   tpDone, lstate, portBusy, tpc, tloc, tres, tcalls, alis>>
    /\ UNCHANGED <<berr, creads, creq, cfwd, cerr, cout, bdials, bstate, bin, bchunks,
                   cfail>>

\* A handler that goes on to forward what it could not parse.
HandleReadRequestForwards(c) ==
    /\ cpc[c] = "read"
    /\ creads' = [creads EXCEPT ![c] = @ + 1]
    /\ \/ \E req \in Requests :
            /\ creq' = [creq EXCEPT ![c] = req]
            /\ cpc' = [cpc EXCEPT ![c] = "body"]
            /\ UNCHANGED <<cerr, cfail>>
       \/ /\ cfail' = [cfail EXCEPT ![c] = "parse"]
          /\ cpc' = [cpc EXCEPT ![c] = "transform"]
          /\ UNCHANGED <<cerr, creq>>
    /\ UNCHANGED <<notConn, berr, cfwd, cout, cstate, bdials, bstate, bin, bchunks>>

\* http.ReadRequest (lines 124-129): a request, or an error and
\* sendError(400, "Invalid request").
HandleReadRequest(c) ==
    /\ cpc[c] = "read"
    /\ creads' = [creads EXCEPT ![c] = @ + 1]
    /\ \/ \E req \in Requests :
            /\ creq' = [creq EXCEPT ![c] = req]
            /\ cpc' = [cpc EXCEPT ![c] = "body"]
            /\ UNCHANGED <<cerr, cfail>>
       \/ /\ cfail' = [cfail EXCEPT ![c] = "parse"]
          /\ cerr' = [cerr EXCEPT ![c] = [statusCode |-> StatusBadRequest,
                                          message |-> "Invalid request"]]
          /\ cpc' = [cpc EXCEPT ![c] = "e_write"]
          /\ creq' = creq
    /\ UNCHANGED <<notConn, berr, cfwd, cout, cstate, bdials, bstate, bin, bchunks>>

\* io.ReadAll(req.Body) (lines 132-140): the body, or an error and
\* sendError(400, "Failed to read body").
HandleReadBody(c) ==
    /\ cpc[c] = "body"
    /\ \/ /\ cpc' = [cpc EXCEPT ![c] = "transform"]
          /\ UNCHANGED <<cerr, cfail>>
       \/ /\ cfail' = [cfail EXCEPT ![c] = "body"]
          /\ cerr' = [cerr EXCEPT ![c] = [statusCode |-> StatusBadRequest,
                                          message |-> "Failed to read body"]]
          /\ cpc' = [cpc EXCEPT ![c] = "e_write"]
    /\ UNCHANGED <<notConn, berr, creads, creq, cfwd, cout, cstate, bdials, bstate, bin,
                   bchunks>>

\* A handler that runs the transform on every body.
HandleTransformAlways(c) ==
    /\ cpc[c] = "transform"
    /\ cfwd' = [cfwd EXCEPT ![c] = processThinkingParameter(creq[c].body)[1]]
    /\ cpc' = [cpc EXCEPT ![c] = "dial"]
    /\ UNCHANGED <<notConn, berr, creads, creq, cerr, cout, cstate, bdials, bstate, bin,
                   bchunks, cfail>>

\* modifiedBody (lines 143-151): the transform's output for a POST with a
\* body, else the body as read.
HandleTransform(c) ==
    /\ cpc[c] = "transform"
    /\ cfwd' = [cfwd EXCEPT ![c] = modifiedBody(creq[c])]
    /\ cpc' = [cpc EXCEPT ![c] = "dial"]
    /\ UNCHANGED <<notConn, berr, creads, creq, cerr, cout, cstate, bdials, bstate, bin,
                   bchunks, cfail>>

\* A forwardRequest that returns on a failed dial without sendError.
ForwardDialSilent(c) ==
    /\ cpc[c] = "dial"
    /\ bdials' = [bdials EXCEPT ![c] = @ + 1]
    /\ \/ /\ bstate' = [bstate EXCEPT ![c] = "open"]
          /\ cpc' = [cpc EXCEPT ![c] = "write"]
          /\ UNCHANGED <<cerr, cfail>>
       \/ /\ cfail' = [cfail EXCEPT ![c] = "dial"]
          /\ cpc' = [cpc EXCEPT ![c] = "h_return"]
          /\ UNCHANGED <<cerr, bstate>>
    /\ UNCHANGED <<notConn, berr, creads, creq, cfwd, cout, cstate, bin, bchunks>>

\* net.Dial (lines 263-269): a backend connection, or an error and
\* sendError(502, "Bad Gateway").
ForwardDial(c) ==
    /\ cpc[c] = "dial"
    /\ bdials' = [bdials EXCEPT ![c] = @ + 1]
    /\ \/ /\ bstate' = [bstate EXCEPT ![c] = "open"]
          /\ cpc' = [cpc EXCEPT ![c] = "write"]
          /\ UNCHANGED <<cerr, cfail>>
       \/ /\ cfail' = [cfail EXCEPT ![c] = "dial"]
          /\ cerr' = [cerr EXCEPT ![c] = [statusCode |-> StatusBadGateway,
                                          message |-> "Bad Gateway"]]
          /\ cpc' = [cpc EXCEPT ![c] = "e_write"]
          /\ bstate' = bstate
    /\ UNCHANGED <<notConn, berr, creads, creq, cfwd, cout, cstate, bin, bchunks>>

\* targetConn.Write(buf.Bytes()) (lines 271-302): the message is sent, or
\* the error is logged and forwardRequest returns.
ForwardWrite(c) ==
    /\ cpc[c] = "write"
    /\ \/ /\ bin' = [bin EXCEPT ![c] = Append(@, Forwarded(creq[c], cfwd[c]))]
          /\ cpc' = [cpc EXCEPT ![c] = "stream"]
          /\ cfail' = cfail
       \/ /\ cfail' = [cfail EXCEPT ![c] = "write"]
          /\ cpc' = [cpc EXCEPT ![c] = "f_return"]
          /\ bin' = bin
    /\ UNCHANGED <<notConn, berr, creads, creq, cfwd, cerr, cout, cstate, bdials, bstate,
                   bchunks>>

\* The most bytes one targetConn.Read returns.
MaxRead == 2

\* The bytes b+1 .. b+w of the backend's stream.
Bytes(b, w) == [i \in 1..w |-> Chunk(b + i)]

\* A streamResponse that goes on reading after a failed write.
StreamResponseGoesOn(c) ==
    /\ cpc[c] = "stream"
    /\ \E n \in 0..MaxRead, err \in {"nil", "EOF", "error"}, w \in 0..MaxRead,
          writeErr \in BOOLEAN :
         /\ n > 0 \/ err # "nil"
         /\ bchunks[c] + n <= MaxChunks
         /\ w <= n /\ (w < n => writeErr) /\ (writeErr => n > 0)
         /\ bchunks' = [bchunks EXCEPT ![c] = @ + n]
         /\ cout' = [cout EXCEPT ![c] = @ \o Bytes(bchunks[c], w)]
         /\ cpc' = [cpc EXCEPT ![c] = IF err # "nil" THEN "f_return" ELSE "stream"]
         /\ cfail' = [cfail EXCEPT ![c] = IF writeErr THEN "client write"
                                          ELSE IF err = "error" THEN "read" ELSE @]
         /\ berr' = [berr EXCEPT ![c] = IF writeErr THEN @ ELSE err]
    /\ UNCHANGED <<notConn, creads, creq, cfwd, cerr, cstate, bdials, bstate, bin>>

\* One round of streamResponse's loop (lines 311-325): targetConn.Read
\* returns n bytes and an error or none; clientConn.Write writes w of them,
\* with an error if not all; the loop ends on a failed write, before the
\* read's error is looked at, or on the read's error.
StreamResponse(c) ==
    /\ cpc[c] = "stream"
    /\ \E n \in 0..MaxRead, err \in {"nil", "EOF", "error"}, w \in 0..MaxRead,
          writeErr \in BOOLEAN :
         /\ n > 0 \/ err # "nil"
         /\ bchunks[c] + n <= MaxChunks
         /\ w <= n /\ (w < n => writeErr) /\ (writeErr => n > 0)
         /\ bchunks' = [bchunks EXCEPT ![c] = @ + n]
         /\ cout' = [cout EXCEPT ![c] = @ \o Bytes(bchunks[c], w)]
         /\ cpc' = [cpc EXCEPT ![c] = IF writeErr \/ err # "nil" THEN "f_return"
                                      ELSE "stream"]
         /\ cfail' = [cfail EXCEPT ![c] = IF writeErr THEN "client write"
                                          ELSE IF err = "error" THEN "read" ELSE @]
         /\ berr' = [berr EXCEPT ![c] = IF writeErr THEN @ ELSE err]
    /\ UNCHANGED <<notConn, creads, creq, cfwd, cerr, cstate, bdials, bstate, bin>>

\* A forwardRequest without the deferred targetConn.Close().
ForwardReturnLeaks(c) ==
    /\ cpc[c] = "f_return"
    /\ cpc' = [cpc EXCEPT ![c] = "h_return"]
    /\ UNCHANGED <<notConn, berr, creads, creq, cfwd, cerr, cout, cstate, bdials, bstate, bin,
                   bchunks, cfail>>

\* forwardRequest returns after the dial succeeded: defer targetConn.Close()
\* (line 269).
ForwardReturn(c) ==
    /\ cpc[c] = "f_return"
    /\ bstate' = [bstate EXCEPT ![c] = "closed"]
    /\ cpc' = [cpc EXCEPT ![c] = "h_return"]
    /\ UNCHANGED <<notConn, berr, creads, creq, cfwd, cerr, cout, cstate, bdials, bin, bchunks,
                   cfail>>

\* sendError (lines 329-338): conn.Write of the response.
SendErrorWrite(c) ==
    /\ cpc[c] = "e_write"
    /\ cout' = [cout EXCEPT ![c] =
                  IF cstate[c] = "open"
                  THEN Append(@, ErrorResponse(cerr[c].statusCode, cerr[c].message))
                  ELSE @]
    /\ cpc' = [cpc EXCEPT ![c] = "e_close"]
    /\ UNCHANGED <<notConn, berr, creads, creq, cfwd, cerr, cstate, bdials, bstate, bin,
                   bchunks, cfail>>

\* sendError (line 339): conn.Close().
SendErrorClose(c) ==
    /\ cpc[c] = "e_close"
    /\ cstate' = [cstate EXCEPT ![c] = "closed"]
    /\ cpc' = [cpc EXCEPT ![c] = "h_return"]
    /\ UNCHANGED <<notConn, berr, creads, creq, cfwd, cerr, cout, bdials, bstate, bin, bchunks,
                   cfail>>

\* handleConnection returns: defer clientConn.Close() (line 121).
HandleReturn(c) ==
    /\ cpc[c] = "h_return"
    /\ cstate' = [cstate EXCEPT ![c] = "closed"]
    /\ cpc' = [cpc EXCEPT ![c] = "done"]
    /\ UNCHANGED <<notConn, berr, creads, creq, cfwd, cerr, cout, bdials, bstate, bin, bchunks,
                   cfail>>

\* The steps of a connection's handler.
HandlerStep(c) ==
    \/ HandleReadRequest(c) \/ HandleReadBody(c) \/ HandleTransform(c)
    \/ ForwardDial(c) \/ ForwardWrite(c) \/ StreamResponse(c) \/ ForwardReturn(c)
    \/ SendErrorWrite(c) \/ SendErrorClose(c) \/ HandleReturn(c)

\* The steps inside the proxy's Start() and Stop().
InProxyCallStep(c) ==
    \/ TpStartCheck(c) \/ TpListen(c) \/ TpRegister(c) \/ TpGo(c)
    \/ TpStopCheck(c) \/ TpCloseDone(c) \/ TpStopCleanup(c)

\* ------------------------------------------------------------------ main
\* What main's own steps leave alone.
notMain == <<mgrVars, envVars, procVars, goVars, callVars, logBuffer, healthVars,
             jobVars, proxyVars, connVars, transformVars, forwardVars, ringVars>>

\* thinkingProxy.Start() has returned (lines 65-69 of main): log.Fatalf on an
\* error, else on to the backend (after the 100 ms sleep).
MainProxyStarted ==
    /\ mpc = "m_proxy"
    /\ tpc[1] = "idle" /\ tres[1] # "none"
    /\ mpc' = IF tres[1] = "start:nil" THEN "m_backend" ELSE "fatal"
    /\ UNCHANGED <<notMain, mpolls>>

\* processManager.Start() has returned (lines 74-78 of main)
MainBackendStarted ==
    /\ mpc = "m_backend"
    /\ pc[1] = "idle" /\ res[1] # "none"
    /\ mpc' = IF res[1] = "start:nil" THEN "m_health" ELSE "fatal"
    /\ UNCHANGED <<notMain, mpolls>>

\* One round of the loop over processManager.HealthCheck() (lines 82-94 of
\* main): ready, or sleep and poll again, or log.Fatalf after the last poll.
MainHealthPoll ==
    /\ mpc = "m_health"
    /\ \E ok \in BOOLEAN :
         /\ ok => (Alive # {} \/ orphan)
         /\ mpolls' = mpolls + 1
         /\ mpc' = IF ok THEN "m_ui"
                   ELSE IF mpolls + 1 = MaxPolls THEN "fatal" ELSE "m_health"
    /\ UNCHANGED notMain

\* uiServer.Start(), the browser, and the wait for the signal (lines 97-118
\* of main): log.Fatalf when the UI server does not start.
MainUi ==
    /\ mpc = "m_ui"
    /\ mpc' \in {"m_wait", "fatal"}
    /\ UNCHANGED <<notMain, mpolls>>

\* <-sigChan (line 118 of main)
MainSignal ==
    /\ mpc = "m_wait"
    /\ mpc' = "m_stop_proxy"
    /\ UNCHANGED <<notMain, mpolls>>

\* thinkingProxy.Stop() has returned (lines 123-125 of main)
MainProxyStopped ==
    /\ mpc = "m_stop_proxy"
    /\ tpc[1] = "idle" /\ tres[1] = "stop:nil"
    /\ mpc' = "m_stop_backend"
    /\ UNCHANGED <<notMain, mpolls>>

\* processManager.Stop() has returned (lines 127-131 of main); main returns.
MainBackendStopped ==
    /\ mpc = "m_stop_backend"
    /\ pc[1] = "idle" /\ res[1] = "stop:nil"
    /\ mpc' = "m_done"
    /\ UNCHANGED <<notMain, mpolls>>

\* main calls the proxy and the supervisor where its position says so.
MainCalls ==
    \/ mpc = "m_proxy" /\ tres[1] = "none" /\ TpCallStart(1)
    \/ mpc = "m_backend" /\ res[1] = "none" /\ CallStart(1)
    \/ mpc = "m_stop_proxy" /\ tres[1] # "stop:nil" /\ TpCallStop(1)
    \/ mpc = "m_stop_backend" /\ res[1] # "stop:nil" /\ CallStop(1)

MainStep ==
    \/ MainCalls
    \/ MainProxyStarted \/ MainBackendStarted \/ MainHealthPoll \/ MainUi
    \/ MainSignal \/ MainProxyStopped \/ MainBackendStopped

\* The program runs until main returns or log.Fatalf ends it.
MainAlive == mpc \notin {"m_done", "fatal"}

\* ------------------------------------------------------------------ the system
\* The steps inside Start() and Stop().
InCallStep(t) ==
    \/ StartCheck(t) \/ StartPgrep(t) \/ StartPkill(t)
    \/ StartCleaned(t) \/ StartStatBinary(t) \/ StartStatConfig(t) \/ StartSpawn(t)
    \/ StartRegister(t) \/ StartLog(t) \/ StartSleep(t)
    \/ StopRead(t) \/ StopClear(t) \/ StopLog(t) \/ StopTerm(t)
    \/ StopWaitReturn(t) \/ StopDone(t) \/ StopTimeout(t) \/ StopKill(t)
    \/ StopWaitDone(t) \/ StopCleanup(t)

CallerStep(t) == CallStart(t) \/ CallStop(t) \/ InCallStep(t)

\* The waiter of a process, and the process exiting.
ProcStep(p) ==
    \/ WaiterWait(p) \/ WaiterCleanup(p) \/ WaiterLog(p)
    \/ ProcExit(p)

\* The output of a process and its two readers.
OutputStep(p) ==
    \E s \in Streams : ProcWrite(p, s) \/ ReaderScan(p, s) \/ ReaderSelect(p, s)

\* The supervisor's lifecycle: callers, waiters, processes.
Next ==
    \/ \E t \in Callers : CallerStep(t)
    \/ \E p \in Procs : ProcStep(p)

Spec == Init /\ [][Next]_vars

\* The lifecycle while the binary and the config file come and go: one
\* caller starts and stops, a second one only stops.
NextFiles ==
    \/ CallerStep(1)
    \/ CallStop(2) \/ InCallStep(2)
    \/ \E p \in Procs : ProcStep(p)
    \/ FsChange

\* Both files are there at first, and no orphan is.
InitFiles == Init /\ binaryExists /\ configExists /\ ~orphan

SpecFiles == InitFiles /\ [][NextFiles]_vars

\* One caller, the backends' output and its readers.
NextOutput ==
    \/ CallerStep(1)
    \/ \E p \in Procs : ProcStep(p) \/ OutputStep(p)

\* Both files are there; an orphan may be.
InitOutput == Init /\ binaryExists /\ configExists

SpecOutput == InitOutput /\ [][NextOutput]_vars

\* The goroutines that take Manager.mu.
Holders == {CallerId(t) : t \in Callers} \cup {WaiterId(p) : p \in Procs}

\* One caller and the waiters, with m.mu.Lock() a step of its own, and the
\* health checks.
NextHealth ==
    \/ CallerStep(1)
    \/ \E p \in Procs : ProcStep(p)
    \/ \E h \in Holders : Acquire(h)
    \/ \E h \in Checkers : HealthStep(h)

SpecHealth == InitOutput /\ [][NextHealth]_vars

\* The authentication jobs: RunAuthCommand, called by handleConnect or not.
NextJob == JobStep

SpecJob == Init /\ [][NextJob]_vars

\* The program: main, the proxy's and the supervisor's Start() and Stop() as
\* main calls them, the goroutines they start (which end with the program),
\* the backends and the port.
NextMain ==
    \/ MainStep
    \/ InProxyCallStep(1)
    \/ InCallStep(1)
    \/ \E l \in Listeners : MainAlive /\ AcceptCall(l)
    \/ \E l \in Listeners : MainAlive /\ AcceptClosed(l)
    \/ \E p \in Procs : MainAlive /\ WaiterWait(p)
    \/ \E p \in Procs : MainAlive /\ WaiterCleanup(p)
    \/ \E p \in Procs : MainAlive /\ WaiterLog(p)
    \/ \E p \in Procs : ProcExit(p)
    \/ PortChange

SpecMain == Init /\ [][NextMain]_vars

\* The proxy: its Start() and Stop(), the accept loop and the handlers of the
\* connections it accepts.
NextProxy ==
    \/ tcalls < MaxServedCalls /\ TpCallStart(1)
    \/ tcalls < MaxServedCalls /\ TpCallStop(1)
    \/ InProxyCallStep(1)
    \/ \E l \in Listeners : AcceptCall(l)
    \/ \E l \in Listeners : AcceptClosed(l)
    \/ \E l \in Listeners, c \in Conns : Accept(l, c)
    \/ \E c \in Conns : HandlerStep(c)

\* processThinkingParameter alone, applied to a body and then once more to
\* its own output.
MaxApplications == 2

TransformApply ==
    /\ Len(xout) < MaxApplications
    /\ xout' = Append(xout, processThinkingParameter(
                                IF xout = <<>> THEN xin ELSE xout[Len(xout)][1]))
    /\ UNCHANGED <<mgrVars, envVars, procVars, goVars, callVars, logBuffer, healthVars,
                   jobVars, proxyVars, mainVars, connVars, xin, arch, forwardVars, ringVars>>

NextTransform == TransformApply

InitTransform ==
    /\ InitProgram /\ binaryExists /\ configExists /\ ~orphan
    /\ xin \in TransformInputs
    /\ xout = <<>>
    /\ arch \in Builds
    /\ fraw = NoRawRequest
    /\ freq = NoHttpRequest
    /\ fmsg = <<>>
    /\ InitLogBuffer

SpecTransform == InitTransform /\ [][NextTransform]_vars

\* Reading one request and building the message for the backend, alone.
Protos == {"HTTP/1.1", "HTTP/1.0"}
Targets ==
    {OriginForm("/v1/messages", ""), OriginForm("/v1/messages", "beta=true"),
     Target("http", "localhost:8317", "/v1/messages", "beta=true")}
HeaderLines ==
    <<<<"host", "localhost:8317">>, <<"Content-Length", "n">>,
      <<"transfer-encoding", "chunked">>, <<"x-api-key", "k">>,
      <<"Connection", "keep-alive">>, <<"Accept", "*/*">>>>
RECURSIVE Pick(_, _)
Pick(lines, keep) ==
    IF lines = <<>> THEN <<>>
    ELSE IF Len(lines) \in keep
         THEN Append(Pick(SubSeq(lines, 1, Len(lines) - 1), keep), lines[Len(lines)])
         ELSE Pick(SubSeq(lines, 1, Len(lines) - 1), keep)
RawRequests ==
    {RawRequest(m, t, p, Pick(HeaderLines, keep), b) :
       m \in Methods, t \in Targets, p \in Protos, keep \in SUBSET DOMAIN HeaderLines,
       b \in RequestBodies}

\* handleConnection's http.ReadRequest (line 124) on the request.
ForwardRead ==
    /\ fraw # NoRawRequest /\ freq = NoHttpRequest
    /\ freq' = ReadRequest(fraw)
    /\ UNCHANGED <<mgrVars, envVars, procVars, goVars, callVars, logBuffer, healthVars,
                   jobVars, proxyVars, mainVars, connVars, transformVars, fraw, fmsg,
                   ringVars>>

\* forwardRequest (lines 271-302) on the request read and its modifiedBody.
ForwardBuild ==
    /\ freq # NoHttpRequest /\ fmsg = <<>>
    /\ fmsg' = Append(fmsg, Forwarded(freq, modifiedBody(freq)))
    /\ UNCHANGED <<mgrVars, envVars, procVars, goVars, callVars, logBuffer, healthVars,
                   jobVars, proxyVars, mainVars, connVars, transformVars, fraw, freq,
                   ringVars>>

NextForward == ForwardRead \/ ForwardBuild

InitForward ==
    /\ InitProgram /\ binaryExists /\ configExists /\ ~orphan
    /\ xin = RawBody("") /\ xout = <<>> /\ arch \in Builds
    /\ fraw \in RawRequests
    /\ freq = NoHttpRequest
    /\ fmsg = <<>>
    /\ InitLogBuffer

SpecForward == InitForward /\ [][NextForward]_vars

\* The proxy's Start() and Stop() under any interleaving of its callers, with
\* the accept loops and the connections they accept, left unhandled.
NextLifecycle ==
    \/ \E c \in ProxyCallers : TpCallStart(c) \/ TpCallStop(c) \/ InProxyCallStep(c)
    \/ \E l \in Listeners : AcceptCall(l)
    \/ \E l \in Listeners : AcceptClosed(l)
    \/ \E l \in Listeners : AcceptFails(l)
    \/ \E l \in Listeners, c \in Conns : Accept(l, c)

\* The supervisor's files and processes play no part in the proxy.
InitProxy == Init /\ binaryExists /\ configExists /\ ~orphan

SpecProxy == InitProxy /\ [][NextProxy]_vars

SpecLifecycle == InitProxy /\ [][NextLifecycle]_vars

\* A RingBuffer made with any of the capacities, and the goroutines that
\* call its Append() and Elements().
Capacities == (0 - 1)..MaxCapacity
InitRing ==
    /\ InitProgram /\ binaryExists /\ configExists /\ ~orphan
    /\ xin = RawBody("") /\ xout = <<>> /\ arch = "none"
    /\ fraw = NoRawRequest /\ freq = NoHttpRequest /\ fmsg = <<>>
    /\ rreq \in Capacities
    /\ rb = NewRingBuffer(rreq)
    /\ rbmu = 0
    /\ rbpc = [u \in RingUsers |-> "idle"]
    /\ rline = [u \in RingUsers |-> ""]
    /\ rhist = <<>>
    /\ rgot = <<>>

SpecRing == InitRing /\ [][NextRing]_vars

\* ================================================================== claims

\* C1: concurrent Start() calls issued while no backend is running spawn one
\* process between them.  Stated for the states in which every call made so
\* far is a Start() still in progress (so all were issued before anything was
\* spawned): at most one process has been spawned.
C1_ConcurrentStartsSpawnOnce ==
    LET starting == {t \in Callers : InStart(t)} IN
    (Cardinality(starting) >= 2 /\ calls = Cardinality(starting))
        => Cardinality(Spawned) <= 1

\* C2: at most one backend process spawned by the supervisor is alive.
C2_AtMostOneAlive == Cardinality(Alive) <= 1

\* C3: a Start() that finds the running flag true returns nil at once: no
\* orphan cleanup, no spawn, and the handle, the flag and the cancellation
\* channel stay as they are.
C3_StartWhileRunning ==
    [][\A t \in Callers :
         (pc[t] = "s_check" /\ pc'[t] # "s_check" /\ isRunning)
            => /\ pc'[t] = "idle"
               /\ res'[t] = "start:nil"
               /\ loc'[t] = Nil
               /\ UNCHANGED <<cmd, isRunning, cancelOutput, closed, procState, orphan,
                              termSent, killSent, logBuffer, extVars>>]_vars

\* A Start() has returned nil without spawning, with a backend registered.
C3_Witness ==
    \E t \in Callers : pc[t] = "idle" /\ res[t] = "start:nil" /\ loc[t] = Nil /\ isRunning

\* C4 as claimed: a Start() called when the binary path or the config path does
\* not exist (and they stay so for the whole call) returns an error, spawns no
\* process, and leaves the supervisor not running: flag false, handle empty.
C4_MissingPathFails ==
    [][\A t \in Callers :
         (InStart(t) /\ t \in gone /\ pc'[t] = "idle")
         => /\ res'[t] # "start:nil"
            /\ loc[t] = Nil
            /\ ~isRunning' /\ cmd' = Nil]_vars

\* C4 amended: a Start() that found the running flag false and whose os.Stat of
\* the binary or of the config path fails returns that error at once; it has
\* spawned no process, and the step changes no process, nor the running flag,
\* the process handle or the cancellation channel.
C4_StatFailure ==
    [][\A t \in Callers :
         (\/ pc[t] = "s_statbin" /\ ~binaryExists /\ pc'[t] # "s_statbin"
          \/ pc[t] = "s_statcfg" /\ ~configExists /\ pc'[t] # "s_statcfg")
         => /\ pc'[t] = "idle"
            /\ res'[t] = (IF pc[t] = "s_statbin" THEN "start:binary not found"
                                                 ELSE "start:config not found")
            /\ loc'[t] = Nil
            /\ procState' = procState
            /\ isRunning' = isRunning /\ cmd' = cmd /\ cancelOutput' = cancelOutput
            /\ closed' = closed]_vars

\* C4's case: after a backend was spawned, a Start() has failed on a missing
\* path.
C4_Witness ==
    \E t \in Callers :
        /\ pc[t] = "idle"
        /\ res[t] \in {"start:binary not found", "start:config not found"}
        /\ Spawned # {}

\* C5: a Start() whose process exits during its final sleep returns an error.
C5_CrashInSleepFails ==
    [][\A t \in Callers :
         (pc[t] = "s_sleep" /\ pc'[t] = "idle" /\ t \in sleepCrash)
            => res'[t] # "start:nil"]_vars

\* C6, as claimed: Stop() takes the forced-kill branch only when the process
\* has not exited at the moment the timeout fires.
C6_KillOnlyIfNotExited ==
    [][\A t \in Callers :
         (pc[t] = "p_select" /\ pc'[t] = "p_kill") => procState[loc[t]] = "alive"]_vars

\* C6, amended: SIGTERM is sent before anything else; the forced-kill branch is
\* taken only while nothing has arrived on done (the exit has not been
\* reported to Stop), and a Stop() whose done holds the exit goes on to the
\* cleanup without a kill; after the kill Stop() goes on only once the process
\* has exited.
C6_StopOrder ==
    [][\A t \in Callers :
         /\ (pc[t] = "p_select" /\ pc'[t] # "p_select")
               => /\ termSent[loc[t]]
                  /\ IF sdone[t] = "ready"
                     THEN pc'[t] = "p_cleanup" /\ killSent' = killSent
                     ELSE pc'[t] = "p_kill" /\ killSent' = killSent
         /\ (pc[t] = "p_kill" /\ pc'[t] # "p_kill")
               => termSent[loc[t]] /\ killSent'[loc[t]] /\ pc'[t] = "p_waitdone"
         /\ (pc[t] = "p_waitdone" /\ pc'[t] # "p_waitdone")
               => procState[loc[t]] = "exited" /\ pc'[t] = "p_cleanup"]_vars

\* A Stop() has sent the forced kill to a process that ignored SIGTERM, and
\* the process has exited by it.
C6_Witness ==
    \E t \in Callers :
        /\ pc[t] = "p_cleanup"
        /\ termSent[loc[t]] /\ killSent[loc[t]]
        /\ exitCode[loc[t]] = -1
        /\ LogCount(Line("force killing", 0, "")) > 0

\* C7: every Stop() returns nil, and one that overlapped no Start() returns
\* with the running flag false and the handle cleared.
C7_StopClears ==
    [][\A t \in Callers :
         (InStop(t) /\ pc'[t] = "idle")
            => /\ res'[t] = "stop:nil"
               /\ t \notin overlap => (~isRunning' /\ cmd' = Nil)]_vars

\* C8: a Stop() that finds no backend running (flag false or handle nil) sends
\* no signal, appends no line, spawns and kills nothing and returns nil with
\* the flag false; and every Stop() returns with the flag false, so that a
\* Stop() right after it takes this path.
C8_StopNotRunning ==
    [][\A t \in Callers :
         /\ (pc[t] = "p_read" /\ pc'[t] # "p_read" /\ (~isRunning \/ cmd = Nil))
               => /\ pc'[t] = "p_clear"
                  /\ UNCHANGED <<logBuffer, procState, termSent, killSent, orphan,
                                 cmd, isRunning, cancelOutput, closed,
                   extVars>>
         /\ (pc[t] = "p_clear" /\ pc'[t] # "p_clear")
               => /\ pc'[t] = "idle" /\ res'[t] = "stop:nil" /\ ~isRunning'
                  /\ UNCHANGED <<logBuffer, procState, termSent, killSent, orphan,
                                 cmd, cancelOutput, closed>>
         /\ (InStop(t) /\ pc'[t] = "idle") => ~isRunning']_vars

\* A second Stop() has returned on the not-running path after a Stop() that
\* stopped a backend.
C8_Witness ==
    \E t \in Callers :
        /\ pc[t] = "idle" /\ res[t] = "stop:nil" /\ loc[t] = Nil
        /\ LogCount(Line("stopped gracefully", 0, "")) > 0
        /\ LogCount(Line("stopping", 1, "")) = 1 /\ LogCount(Line("stopping", 2, "")) = 0

\* C9: once the waiter of an exited process has run, that process's
\* cancellation channel is closed and the log holds a line with an exit code.
C9_WaiterEffects ==
    \A p \in Procs :
        wpc[p] = "done"
           => /\ closed[p] >= 1
              /\ \E c \in {-1, 0, 1} : LogCount(Line("stopped with code", c, "")) >= 1

\* C10: once the cancellation channel of a process has been closed (by the
\* waiter or by Stop()), the two readers of that process append no further
\* line to the log.
C10_NoOutputAfterCancel ==
    [][\A p \in Procs : \A s \in Streams :
         closed[p] >= 1
         => LogCountIn(logBuffer', Line("output", p, s)) = LogCount(Line("output", p, s))]_vars

\* C11: the cancellation channel created when a process is registered is
\* closed exactly once: never twice, and once by the time the process has
\* exited and its waiter has run the cleanup.
C11_ClosedExactlyOnce ==
    \A p \in Procs :
        /\ closed[p] <= 1
        /\ wpc[p] \in {"log", "done"} => closed[p] = 1

\* C12: HealthCheck() never waits for the mutex and changes nothing: whoever
\* holds m.mu and wherever Start() and Stop() are, a checker between calls can
\* enter HealthCheck(), one inside it can return, and its steps leave the
\* supervisor, the processes and the log as they were.
C12_HealthCheckLockFree ==
    /\ [](\A h \in Checkers :
            /\ (hpc[h] = "idle" /\ hcalls < MaxHealth) => ENABLED HcCall(h)
            /\ hpc[h] = "dial" => ENABLED HcDial(h))
    /\ [][hpc' # hpc => UNCHANGED <<mgrVars, envVars, procVars, goVars, callVars,
                                    logBuffer>>]_vars

\* A HealthCheck() has been called and has returned true while a Start()
\* held the mutex to register its process throughout.
C12_Witness ==
    \E h \in Checkers :
        /\ hpc[h] = "idle" /\ hres[h] = "true" /\ hat[h] = <<"held">>
        /\ mu = CallerId(1) /\ pc[1] = "s_register"

\* C13: a backend comes to life only in the spawn step of a Start() call; the
\* waiter of an exited backend leaves the running flag false; and the flag
\* turns from false to true only in the registration step of a Start() call.
C13_NoAutoRestart ==
    [][/\ \A p \in Procs :
            /\ (procState[p] # "alive" /\ procState'[p] = "alive")
                  => \E t \in Callers : pc[t] = "s_spawn" /\ pc'[t] = "s_register"
                                         /\ loc'[t] = p
            /\ (wpc[p] = "cleanup" /\ wpc'[p] # "cleanup") => ~isRunning'
       /\ (~isRunning /\ isRunning')
             => \E t \in Callers : pc[t] = "s_register" /\ pc'[t] = "s_log"]_vars

\* A backend that Start() reported started has exited on its own, its waiter
\* has finished, no call is in progress and more calls can be made: the flag
\* is false and nothing is alive.
C13_Witness ==
    \E p \in Procs :
        /\ wpc[p] = "done" /\ ~termSent[p] /\ ~killSent[p]
        /\ \A t \in Callers : pc[t] = "idle"
        /\ \E t \in Callers : res[t] = "start:nil" /\ loc[t] = p
        /\ ~isRunning /\ Alive = {} /\ calls < MaxCalls

C15_QwenWithoutEmailFails ==
    [][(jpc # "idle" /\ jpc' = "idle" /\ jkind = "QwenLogin" /\ jemail = "")
          => ~jres'.ok /\ jchild' = "none"]_vars

\* C15 amended: a connect request for Qwen with an empty email is answered
\* 400 by handleConnect, which does not call RunAuthCommand: no child is
\* spawned; and no call made by handleConnect is for Qwen with an empty email.
C15_ConnectQwenWithoutEmail ==
    /\ [][(jcalls' # jcalls /\ hreq'.method = "POST" /\ hreq'.decodes
              /\ ToLower(hreq'.service) = "qwen" /\ hreq'.email = ""
              /\ jvia' # "direct")
             => /\ hresp' = "400 Email required for Qwen"
                /\ jpc' = "idle" /\ jspawned' = jspawned /\ jchild' = jchild]_vars
    /\ []((jvia = "handler" /\ jpc # "idle") => ~(jkind = "QwenLogin" /\ jemail = ""))

\* A connect request for Qwen without an email has been answered 400.
C15_Witness ==
    /\ hresp = "400 Email required for Qwen"
    /\ ToLower(hreq.service) = "qwen" /\ hreq.email = ""
    /\ jpc = "idle"

\* C16: the proxy's listening socket is open when a backend is spawned, and
\* it is closed only after the supervisor's Stop() has returned.
C16_StartupAndShutdownOrder ==
    /\ [][\A p \in Procs :
             (procState[p] = "none" /\ procState'[p] = "alive")
                => tpListener # Nil /\ lstate[tpListener] = "open"]_vars
    /\ [][\A l \in Listeners :
             (lstate[l] = "open" /\ lstate'[l] = "closed")
                => pc[1] = "idle" /\ res[1] = "stop:nil"]_vars

\* C17: a connection whose request fails to parse gets the 400 response
\* written before it is closed, is closed when its handler is done, and no
\* backend connection is ever dialled or written for it.
C17_ParseFailure ==
    \A c \in Conns :
        cfail[c] = "parse" =>
            /\ bdials[c] = 0 /\ bstate[c] = "none" /\ bin[c] = <<>>
            /\ cstate[c] = "closed" =>
                   cout[c] = <<ErrorResponse(StatusBadRequest, "Invalid request")>>
            /\ cpc[c] = "done" => cstate[c] = "closed"
            /\ Len(cout[c]) <= 1

C17_Witness ==
    \E c \in Conns :
        /\ cfail[c] = "parse" /\ cpc[c] = "done"
        /\ cout[c][1].statusCode = StatusBadRequest

\* C18: a parsed request whose backend connection cannot be opened gets the
\* 502 Bad Gateway response, then the client connection is closed; nothing
\* else is written to the client and nothing to the backend.
C18_DialFailure ==
    \A c \in Conns :
        cfail[c] = "dial" =>
            /\ creq[c] \in Requests
            /\ cstate[c] = "closed" =>
                   cout[c] = <<ErrorResponse(StatusBadGateway, "Bad Gateway")>>
            /\ cpc[c] = "done" => cstate[c] = "closed"
            /\ Len(cout[c]) <= 1
            /\ bstate[c] = "none" /\ bin[c] = <<>>

C18_Witness ==
    \E c \in Conns :
        /\ cfail[c] = "dial" /\ cpc[c] = "done"
        /\ cout[c][1].statusCode = StatusBadGateway

\* C19: after a parse, body, dial or backend write failure the client
\* connection is closed only with an error response written to it.
C19_FailureAlwaysAnswered ==
    \A c \in Conns :
        (cfail[c] \in {"parse", "body", "dial", "write"} /\ cstate[c] = "closed") =>
            /\ cout[c] # <<>>
            /\ cout[c][Len(cout[c])].kind = "error"

\* C20: a connection has at most one request read from it, at most one
\* backend connection dialled and one message forwarded; a handler that is
\* done has closed the client connection and the backend connection it
\* opened.
C20_OneCycleAndClosed ==
    \A c \in Conns :
        /\ creads[c] <= 1 /\ bdials[c] <= 1 /\ Len(bin[c]) <= 1
        /\ cpc[c] = "done" => cstate[c] = "closed" /\ bstate[c] # "open"

C20_Witness ==
    \E c, d \in Conns :
        /\ cpc[c] = "done" /\ bstate[c] = "closed" /\ cfail[c] = "write"
        /\ cpc[d] = "done" /\ bstate[d] = "closed" /\ cfail[d] = "none"
        /\ Len(cout[d]) = MaxChunks

\* C21: a request that is not a POST, or whose body is empty, is forwarded
\* with the body exactly as it was read from the client.
C21_BodyUntouched ==
    \A c \in Conns :
        (bin[c] # <<>> /\ (creq[c].method # "POST" \/ creq[c].body.text = "")) =>
            bin[c][1].body = creq[c].body

C21_Witness ==
    \E c \in Conns :
        /\ bin[c] # <<>> /\ creq[c].method = "GET"
        /\ processThinkingParameter(creq[c].body)[2]
        /\ bin[c][1].body = creq[c].body

\* C22: the transform returns its input as it is, and says it did not
\* apply, for a body that is no JSON object, whose model is absent or no
\* string, or does not begin with the prefix, or holds no delimiter.
C22_IdentityOnOthers ==
    (/\ Len(xout) >= 1
     /\ \/ xin.text # "object"
        \/ xin.model.t # "str"
        \/ xin.model.v = <<>>
        \/ Head(xin.model.v) # modelPrefix
        \/ \A i \in 1..Len(xin.model.v) : xin.model.v[i] # thinkingPrefix)
        => xout[1] = <<xin, FALSE>>

C22_Witness ==
    /\ Len(xout) >= 1
    /\ xin.model = Str(<<"gpt-4", thinkingPrefix, "5000">>)
    /\ xin.max_tokens = IntNum(100)
    /\ xin.rest \in DOMAIN Float64Rest
    /\ xout[1][1] = xin

\* C23: for a model that is the prefix, text, the delimiter (its last
\* occurrence) and the numeral of an integer N > 0, the output's model is the
\* text before the delimiter and its thinking object is enabled with
\* budget_tokens min(N, hardCap - 1).
C23_PositiveBudget ==
    (/\ Len(xout) >= 1
     /\ xin.text = "object" /\ xin.model.t = "str"
     /\ Len(xin.model.v) >= 3
     /\ xin.model.v[1] = modelPrefix
     /\ xin.model.v[Len(xin.model.v) - 1] = thinkingPrefix
     /\ LET n == xin.model.v[Len(xin.model.v)]
        IN  n \in OutOfRange \/ (n \in DOMAIN Numerals /\ Numerals[n] > 0))
        => LET v == xin.model.v
               n == v[Len(v)]
               budget == IF n \in OutOfRange \/ Numerals[n] >= hardCap
                         THEN hardCap - 1 ELSE Numerals[n]
           IN  /\ xout[1][1].model = Str(SubSeq(v, 1, Len(v) - 2))
               /\ xout[1][1].thinking = ThinkingObject(budget)

\* C24: for a model with the prefix and the delimiter whose text after the
\* last delimiter is no numeral, or the numeral of an integer <= 0, the
\* output's model is the text before that delimiter, no thinking object is
\* added, and no other field is added or changed.
C24_InvalidSuffixStripsOnly ==
    (/\ Len(xout) >= 1
     /\ xin.text = "object" /\ xin.model.t = "str"
     /\ xin.model.v # <<>> /\ xin.model.v[1] = modelPrefix
     /\ \E i \in 1..Len(xin.model.v) : xin.model.v[i] = thinkingPrefix
     /\ LET v == xin.model.v
            i == CHOOSE j \in 1..Len(v) :
                    v[j] = thinkingPrefix /\ \A k \in (j + 1)..Len(v) : v[k] # thinkingPrefix
            suffix == SubSeq(v, i + 1, Len(v))
        IN  \/ Len(suffix) # 1
            \/ suffix[1] \notin (DOMAIN Numerals) \cup OutOfRange
            \/ suffix[1] \in DOMAIN Numerals /\ Numerals[suffix[1]] <= 0)
        => LET v == xin.model.v
               i == CHOOSE j \in 1..Len(v) :
                       v[j] = thinkingPrefix
                       /\ \A k \in (j + 1)..Len(v) : v[k] # thinkingPrefix
               out == xout[1][1]
           IN  /\ out.model = Str(SubSeq(v, 1, i - 1))
               /\ out.thinking = xin.thinking
               /\ out.max_tokens = xin.max_tokens
               /\ out.max_output_tokens = xin.max_output_tokens
               /\ out.rest = xin.rest

\* C25: applying the transform to its own output returns that output
\* unchanged.
C25_Idempotent ==
    Len(xout) = 2 => xout[2][1] = xout[1][1]

\* C25, amended: applying the transform to its own output returns that
\* output unchanged exactly when the input is not a JSON object whose model
\* is a string with the prefix and two or more delimiters.
C25_IdempotentUnlessDelimiterLeft ==
    Len(xout) = 2 =>
        (xout[2][1] = xout[1][1]
           <=> ~(/\ xin.text = "object" /\ xin.model.t = "str"
                 /\ xin.model.v # <<>> /\ xin.model.v[1] = modelPrefix
                 /\ Cardinality({i \in 1..Len(xin.model.v) :
                                    xin.model.v[i] = thinkingPrefix}) >= 2))

C25_Witness ==
    /\ Len(xout) = 2
    /\ xin.model = Str(<<modelPrefix, "x", thinkingPrefix, "5000">>)
    /\ xin.max_tokens = IntNum(100)
    /\ xout[1][2]
    /\ xout[1][1].max_tokens # xin.max_tokens
    /\ xout[2] = <<xout[1][1], FALSE>>

\* C26: for the body with model claude-x-thinking-5000 and max_tokens 100
\* the output has model claude-x, thinking enabled with budget_tokens 5000,
\* and max_tokens 5500.
C26_ExampleOne ==
    (/\ Len(xout) >= 1
     /\ xin = JsonBody(Str(<<modelPrefix, "x", thinkingPrefix, "5000">>), IntNum(100),
                       Absent, Absent, ""))
        => /\ xout[1][1].model = Str(<<modelPrefix, "x">>)
           /\ xout[1][1].thinking = ThinkingObject(5000)
           /\ xout[1][1].max_tokens = IntNum(5500)

\* C27: for a valid budget, with ceiling = min(effectiveBudget +
\* max(minHeadroom, effectiveBudget / 10), hardCap), raised to
\* min(effectiveBudget + 1, hardCap) if that is <= effectiveBudget, each of
\* max_tokens and max_output_tokens that is a number becomes ceiling if its
\* integer value is <= effectiveBudget and keeps its value otherwise.
C27_CeilingAndOverwrite ==
    (/\ Len(xout) >= 1
     /\ xin.text = "object" /\ xin.model.t = "str"
     /\ Len(xin.model.v) >= 3
     /\ xin.model.v[1] = modelPrefix
     /\ xin.model.v[Len(xin.model.v) - 1] = thinkingPrefix
     /\ xin.model.v[Len(xin.model.v)] \in DOMAIN Numerals
     /\ Numerals[xin.model.v[Len(xin.model.v)]] > 0)
        => LET n == Numerals[xin.model.v[Len(xin.model.v)]]
               eff == IF n < hardCap - 1 THEN n ELSE hardCap - 1
               tenth == eff \div 10
               headroom == IF minHeadroom > tenth THEN minHeadroom ELSE tenth
               desired == eff + headroom
               first == IF desired < hardCap THEN desired ELSE hardCap
               ceiling == IF first <= eff
                          THEN (IF eff + 1 < hardCap THEN eff + 1 ELSE hardCap)
                          ELSE first
               Whole(f) == IF f.v[1] < 0 /\ f.v[2] = 1 THEN f.v[1] + 1 ELSE f.v[1]
               Expected(f) == IF Whole(f) <= eff THEN IntNum(ceiling) ELSE f
           IN  /\ xin.max_tokens.t = "num"
                     => xout[1][1].max_tokens = Expected(xin.max_tokens)
               /\ xin.max_output_tokens.t = "num"
                     => xout[1][1].max_output_tokens = Expected(xin.max_output_tokens)

\* C28: for a valid budget, when neither max-token field was overwritten by
\* the overwrite step, exactly one of them is set to ceiling: the one that
\* was present (max_output_tokens if it alone was), max_tokens if neither.
C28_ExactlyOneFieldSet ==
    (/\ Len(xout) >= 1
     /\ xin.text = "object" /\ xin.model.t = "str"
     /\ Len(xin.model.v) >= 3
     /\ xin.model.v[1] = modelPrefix
     /\ xin.model.v[Len(xin.model.v) - 1] = thinkingPrefix
     /\ xin.model.v[Len(xin.model.v)] \in DOMAIN Numerals
     /\ Numerals[xin.model.v[Len(xin.model.v)]] > 0
     /\ LET n == Numerals[xin.model.v[Len(xin.model.v)]]
            eff == IF n < hardCap - 1 THEN n ELSE hardCap - 1
            Whole(f) == IF f.v[1] < 0 /\ f.v[2] = 1 THEN f.v[1] + 1 ELSE f.v[1]
        IN  /\ ~(xin.max_tokens.t = "num" /\ Whole(xin.max_tokens) <= eff)
            /\ ~(xin.max_output_tokens.t = "num" /\ Whole(xin.max_output_tokens) <= eff))
        => LET n == Numerals[xin.model.v[Len(xin.model.v)]]
               eff == IF n < hardCap - 1 THEN n ELSE hardCap - 1
               tenth == eff \div 10
               headroom == IF minHeadroom > tenth THEN minHeadroom ELSE tenth
               desired == eff + headroom
               first == IF desired < hardCap THEN desired ELSE hardCap
               ceiling == IF first <= eff
                          THEN (IF eff + 1 < hardCap THEN eff + 1 ELSE hardCap)
                          ELSE first
               mt == xin.max_tokens
               mot == xin.max_output_tokens
               out == xout[1][1]
           IN  IF mt.t = "absent"
               THEN IF mot.t = "absent"
                    THEN out.max_tokens = IntNum(ceiling) /\ out.max_output_tokens = Absent
                    ELSE out.max_output_tokens = IntNum(ceiling) /\ out.max_tokens = Absent
               ELSE IF mot.t = "absent"
                    THEN out.max_tokens = IntNum(ceiling) /\ out.max_output_tokens = Absent
                    ELSE \/ out.max_tokens = IntNum(ceiling) /\ out.max_output_tokens = mot
                         \/ out.max_output_tokens = IntNum(ceiling) /\ out.max_tokens = mt

\* C28, amended: for a valid budget, when neither max-token field is a
\* number, exactly one is set to ceiling, max_output_tokens if its key is
\* present and max_tokens otherwise, and the other is left as it was; when
\* either is a number, a field that is no number is left as it was.
C28_OneFieldSetWhenNoNumber ==
    (/\ Len(xout) >= 1
     /\ xin.text = "object" /\ xin.model.t = "str"
     /\ Len(xin.model.v) >= 3
     /\ xin.model.v[1] = modelPrefix
     /\ xin.model.v[Len(xin.model.v) - 1] = thinkingPrefix
     /\ xin.model.v[Len(xin.model.v)] \in DOMAIN Numerals
     /\ Numerals[xin.model.v[Len(xin.model.v)]] > 0)
        => LET n == Numerals[xin.model.v[Len(xin.model.v)]]
               eff == IF n < hardCap - 1 THEN n ELSE hardCap - 1
               tenth == eff \div 10
               headroom == IF minHeadroom > tenth THEN minHeadroom ELSE tenth
               desired == eff + headroom
               first == IF desired < hardCap THEN desired ELSE hardCap
               ceiling == IF first <= eff
                          THEN (IF eff + 1 < hardCap THEN eff + 1 ELSE hardCap)
                          ELSE first
               mt == xin.max_tokens
               mot == xin.max_output_tokens
               out == xout[1][1]
           IN  IF mt.t # "num" /\ mot.t # "num"
               THEN IF mot.t # "absent"
                    THEN out.max_output_tokens = IntNum(ceiling) /\ out.max_tokens = mt
                    ELSE out.max_tokens = IntNum(ceiling) /\ out.max_output_tokens = mot
               ELSE /\ mt.t # "num" => out.max_tokens = mt
                    /\ mot.t # "num" => out.max_output_tokens = mot

C28_Witness ==
    /\ Len(xout) >= 1
    /\ xin.model = Str(<<modelPrefix, "x", thinkingPrefix, "20000">>)
    /\ xin.max_tokens = OtherValue("string")
    /\ xin.max_output_tokens = OtherValue("null")
    /\ xout[1][1].max_output_tokens = IntNum(22000)
    /\ xout[1][1].max_tokens = OtherValue("string")

\* C29: the message sent to the backend consists of the original request
\* line, every original header except content-length, host and
\* transfer-encoding (names matched without regard to case), then a Host
\* header for the backend, Connection: close whatever the client's own
\* Connection header says, a Content-Length of the length of the forwarded
\* body, and the forwarded body.
OriginalHeaders(raw) ==
    {<<ToLower(CanonicalMIMEHeaderKey(raw.headers[i][1])), raw.headers[i][2]>> :
       i \in DOMAIN raw.headers}
HeadersAndBodyAsStated(raw, msg) ==
    /\ {<<ToLower(h[1]), h[2]>> : h \in msg.copied}
         = {h \in OriginalHeaders(raw) : h[1] \notin excludedHeaders}
    /\ msg.appended = <<<<"Host", targetHost>>, <<"Connection", "close">>,
                        <<"Content-Length", ByteLength(msg.body)>>>>
    /\ msg.body = modifiedBody(ReadRequest(raw))
C29_ForwardedMessage ==
    \A i \in DOMAIN fmsg :
        /\ fmsg[i].line = <<fraw.method, fraw.target, fraw.proto>>
        /\ HeadersAndBodyAsStated(fraw, fmsg[i])

\* C29, amended: the request line is the method, the target's path and query
\* in origin form and the protocol version, which is the original request
\* line when the client's target was in origin form; the rest as stated.
C29_ForwardedMessageOriginForm ==
    \A i \in DOMAIN fmsg :
        /\ fmsg[i].line = <<fraw.method, OriginForm(fraw.target.path, fraw.target.query),
                            fraw.proto>>
        /\ fraw.target.scheme = "" => fmsg[i].line[2] = fraw.target
        /\ HeadersAndBodyAsStated(fraw, fmsg[i])

C29_Witness ==
    /\ Len(fmsg) = 1
    /\ fraw.method = "POST" /\ fraw.body.text = "object"
    /\ Len(fraw.headers) = Len(HeaderLines)
    /\ fmsg[1].copied = {<<"X-Api-Key", "k">>, <<"Connection", "keep-alive">>,
                         <<"Accept", "*/*">>}
    /\ fmsg[1].body # fraw.body
\* C30: what the proxy writes to a client while streaming is, in order and
\* unchanged, a prefix of the bytes read from the backend connection, and all
\* of them once the backend has closed the connection with no client write
\* failed; the loop is left at the first read that returns an error or EOF
\* and at the first failed client write.
C30_StreamedPrefix ==
    \A c \in Conns :
        bin[c] # <<>> =>
            /\ Len(cout[c]) <= bchunks[c]
            /\ cout[c] = Bytes(0, Len(cout[c]))
            /\ (berr[c] = "EOF" /\ cfail[c] # "client write") =>
                   cout[c] = Bytes(0, bchunks[c])
            /\ (berr[c] # "nil" \/ cfail[c] = "client write") => cpc[c] # "stream"

C30_Witness ==
    \E c, d \in Conns :
        /\ cpc[c] = "done" /\ berr[c] = "EOF" /\ cfail[c] = "none"
        /\ cout[c] = Bytes(0, MaxChunks)
        /\ cpc[d] = "done" /\ cfail[d] = "client write"
        /\ Len(cout[d]) = 1 /\ bchunks[d] = MaxChunks
\* C31: a Stop() that found the proxy running ends with isRunning false and
\* the listening socket closed, and no connection is accepted on a closed
\* socket.
C31_StopStopsProxy ==
    /\ [][\A c \in ProxyCallers :
             (tpc[c] \in {"q_close", "q_cleanup"} /\ tpc'[c] \notin {"q_close", "q_cleanup"})
                => ~tpRunning' /\ lstate'[tpListener'] = "closed"]_vars
    /\ [][\A l \in Listeners :
             (apc[l] = "accept" /\ apc'[l] = "top" /\ cpc' # cpc)
                => lstate[alis[l]] = "open"]_vars

\* C32: no step of Stop() changes anything of a connection or its handler;
\* whatever the proxy's state, a handler that has not returned can take its
\* next step; and a handler that has returned after the backend closed the
\* connection, with no failure, has forwarded its request and written every
\* byte of the response to the client.
C32_StopLeavesHandlers ==
    /\ [][\A c \in ProxyCallers :
             (tpc[c] \in {"q_check", "q_close", "q_cleanup"} /\ tpc'[c] # tpc[c])
                => UNCHANGED connVars]_vars
    /\ [](\A c \in Conns : cpc[c] \notin {"none", "done"} => ENABLED HandlerStep(c))
    /\ [](\A c \in Conns :
             (cpc[c] = "done" /\ cfail[c] = "none" /\ berr[c] = "EOF") =>
                 /\ bin[c] = <<Forwarded(creq[c], modifiedBody(creq[c]))>>
                 /\ cout[c] = Bytes(0, bchunks[c]))

\* Stop() has returned and closed the listener while one handler is in the
\* middle of the response and another has not read its request yet.
C32_Witness ==
    /\ tres[1] = "stop:nil" /\ tpc[1] = "idle" /\ ~tpRunning
    /\ tpListener # Nil /\ lstate[tpListener] = "closed"
    /\ cpc[1] = "stream" /\ Len(cout[1]) = 1
    /\ cpc[2] = "read"

\* C33: a handler's step changes nothing of the supervisor or of the proxy's
\* own state, its lock included; and whatever the other handlers are doing or
\* waiting for, an accept loop on an open listener can accept the next
\* connection, a handler that has not returned can take its next step, and
\* the supervisor's Start() and Stop() can be entered.
C33_HandlersIndependent ==
    /\ [][(connVars' # connVars /\ \A c \in Conns : cpc[c] = "none" => cpc'[c] = "none")
             => UNCHANGED <<mgrVars, envVars, procVars, goVars, callVars, proxyVars>>]_vars
    /\ [](\A l \in Listeners :
             (apc[l] = "accept" /\ lstate[alis[l]] = "open" /\ \E c \in Conns : cpc[c] = "none")
                => ENABLED (\E c \in Conns : Accept(l, c)))
    /\ [](\A c \in Conns : cpc[c] \notin {"none", "done"} => ENABLED HandlerStep(c))
    /\ [](ENABLED CallStart(1) /\ ENABLED CallStop(1))

\* The first connection's handler still waits for its request while the
\* second connection, accepted after it, has been served to the end.
C33_Witness ==
    /\ cpc[1] = "read"
    /\ cpc[2] = "done" /\ cfail[2] = "none" /\ berr[2] = "EOF"
    /\ cout[2] = Bytes(0, MaxChunks)

\* The last min(n, c) of the first n lines appended, oldest first.
LastLines(n, c) == SubSeq(rhist, IF n > c THEN n - c + 1 ELSE 1, n)

\* C34: after n Append calls on a RingBuffer of capacity C, Elements()
\* returns the last min(n, C) lines appended, in the order they arrived,
\* oldest first; so after C + k appends it returns C lines.
C34_ElementsAreLastLines ==
    /\ \A i \in DOMAIN rgot : rgot[i].data = LastLines(rgot[i].n, rb.cap)
    /\ rbmu = 0 =>
          /\ Elements(rb) = LastLines(Len(rhist), rb.cap)
          /\ Len(rhist) >= rb.cap => Len(Elements(rb)) = rb.cap

\* Elements() after 3 + 2 appends on a buffer of capacity 3.
C34_Witness ==
    /\ rb.cap = 3
    /\ \E i \in DOMAIN rgot :
          /\ rgot[i].n = 5
          /\ rgot[i].data = <<LineNames[3], LineNames[4], LineNames[5]>>

\* C35: the count is between 0 and C, where C is the capacity asked for,
\* raised to 1 if it was below 1; and an Append on a full buffer leaves the
\* count at C and drops the oldest line and no other.
C35_CountWithinCapacity ==
    /\ [](rb.cap = (IF rreq < 1 THEN 1 ELSE rreq) /\ 0 <= rb.count /\ rb.count <= rb.cap)
    /\ [][(rhist' # rhist /\ Len(rhist) >= rb.cap)
             => /\ rb'.count = rb.cap
                /\ Elements(rb') = Tail(LastLines(Len(rhist), rb.cap))
                                      \o <<rhist'[Len(rhist')]>>]_vars

\* A buffer asked for with capacity -1 has taken two lines.
C35_Witness ==
    /\ rreq < 0 /\ rb.cap = 1 /\ rb.count = 1
    /\ rhist = <<LineNames[1], LineNames[2]>> /\ rbmu = 0
    /\ Elements(rb) = <<LineNames[2]>>

\* C36: with Append and Elements running in any interleaving, each slice
\* Elements() returned held, when it was returned, the buffer's contents
\* after some whole number of completed Appends, and it holds the same
\* strings ever after.
C36_ElementsAtomicAndStable ==
    \A i \in DOMAIN rgot :
        /\ \E k \in 0..Len(rhist) : rgot[i].data = LastLines(k, rb.cap)
        /\ SliceNow(rgot[i]) = rgot[i].data

\* Both goroutines have appended, one is inside Append() now, and a slice
\* returned earlier holds two lines whose slots have been overwritten since.
C36_Witness ==
    /\ rb.cap = 2 /\ Len(rhist) = 4
    /\ \E u \in RingUsers : rbpc[u] = "a_count"
    /\ \E j, k \in DOMAIN rhist : j # k /\ rhist[j] # rhist[k]
    /\ \E i \in DOMAIN rgot :
          /\ rgot[i].data = <<LineNames[1], LineNames[2]>>
          /\ rb.storage[rgot[i].head] # rgot[i].data[1]

\* C37: whenever the supervisor's mutex is free, isRunning is true exactly
\* when cmd is set, and exactly when cancelOutput is set and not closed.
C37_FlagHandleChannelAgree ==
    mu = NoHolder =>
        /\ isRunning <=> cmd # Nil
        /\ isRunning <=> (cancelOutput # Nil /\ closed[cancelOutput] = 0)

\* C38: the final cleanup of a Stop() touches the flag, the handle and the
\* cancellation channel only of the process that Stop() read; when another
\* process has been registered since, it leaves all three alone.
C38_StopTearsDownOnlyItsProcess ==
    [][\A t \in Callers :
         (pc[t] = "p_cleanup" /\ pc'[t] = "idle" /\ cmd # Nil /\ cmd # loc[t])
            => /\ cmd' = cmd /\ isRunning' = isRunning
               /\ cancelOutput' = cancelOutput /\ closed' = closed]_vars

\* C39: under every interleaving of Start() and Stop() calls on one proxy,
\* close() is called on the done channel at most once, so that no Stop()
\* panics; a Stop() returns with isRunning false; and a Start() that
\* registers its listener leaves isRunning true and that listener open.
C39_StartStopAnyOrder ==
    /\ [](\A c \in ProxyCallers : tpc[c] # "panic")
    /\ [][\A c \in ProxyCallers :
             (tpc[c] = "q_cleanup" /\ tpc'[c] = "idle") => ~tpRunning']_vars
    /\ [][\A c \in ProxyCallers :
             (tpc[c] = "t_register" /\ tpc'[c] = "t_go")
                => tpRunning' /\ lstate'[tpListener'] = "open"]_vars

\* C40: for a valid budget, the ceiling computed is greater than the
\* effective budget and at most hardCap, already before the step that raises
\* a ceiling <= effectiveBudget, and in the output at least one of max_tokens
\* and max_output_tokens is present and each of them that is a number is
\* greater than the budget_tokens of the thinking object.
C40_CeilingAboveBudget ==
    (/\ Len(xout) >= 1
     /\ xin.text = "object" /\ xin.model.t = "str"
     /\ Len(xin.model.v) >= 3
     /\ xin.model.v[1] = modelPrefix
     /\ xin.model.v[Len(xin.model.v) - 1] = thinkingPrefix
     /\ xin.model.v[Len(xin.model.v)] \in DOMAIN Numerals
     /\ Numerals[xin.model.v[Len(xin.model.v)]] > 0)
        => LET effective == effectiveBudget(Numerals[xin.model.v[Len(xin.model.v)]])
               desired == desiredMaxTokens(effective)
               ceiling == requiredMaxTokens(effective)
               out == xout[1][1]
               budgetTokens == out.thinking.v[2]
               Above(f) == f.t = "num" =>
                               \/ f.v[1] > budgetTokens
                               \/ f.v[1] = budgetTokens /\ f.v[2] = 1
           IN  /\ effective < ceiling /\ ceiling <= hardCap
               /\ (IF desired > hardCap THEN hardCap ELSE desired) > effective
               /\ out.thinking.t = "thinking"
               /\ out.max_tokens.t # "absent" \/ out.max_output_tokens.t # "absent"
               /\ Above(out.max_tokens)
               /\ Above(out.max_output_tokens)

C40_Witness ==
    /\ Len(xout) >= 1
    /\ xin.text = "object"
    /\ xin.model = Str(<<modelPrefix, "x", thinkingPrefix, "40000">>)
    /\ xin.max_tokens = IntNum(31999)
    /\ xin.max_output_tokens = OtherValue("string")
    /\ xout[1][1].thinking = ThinkingObject(31999)
    /\ xout[1][1].max_tokens = IntNum(32000)
    /\ xout[1][1].max_output_tokens = OtherValue("string")

====
